---- MODULE Spec2Model ----
(***************************************************************************)
(* Contract pricing, discount and billing engine of the educational-center *)
(* application (contracts/models.py, contracts/admin.py,                    *)
(* lessons/models.py).                                                      *)
(*                                                                          *)
(* Money.  Every stored amount is a DecimalField with decimal_places=2 and  *)
(* is held here as an integer number of cents.  Python computes with exact  *)
(* Decimals: "base_price * value / 100" has up to six fraction digits and   *)
(* "quantity * unit_price" up to four.  Exact intermediate values are held  *)
(* as integers in the finer unit (1e-6, resp. 1e-4 of the currency), and    *)
(* the write to the numeric(n,2) column rounds them to cents.               *)
(*                                                                          *)
(* Dates are day numbers.  A nullable column is the empty set (NULL) or a   *)
(* singleton set.  A table is a sequence of rows; the index is the primary  *)
(* key.                                                                     *)
(***************************************************************************)
EXTENDS Integers, Sequences, FiniteSets, TLC

VARIABLES
    today,        \* date.today()
    discounts,    \* table Discount (joined with its DiscountType.is_percentage)
    items,        \* table ContractItem
    prices,       \* table PriceList
    invoices,     \* table Invoice
    invoice_items,\* table InvoiceItem
    requests,     \* table ContractChangeRequest
    notifications,\* table Notification
    debts,        \* table Debt
    item_discounts,\* table ContractItemDiscount
    calls,        \* update_final_price calls in progress, one per worker
    ret           \* what the last operation computed and returned to its caller

vars == <<today, discounts, items, prices, invoices, invoice_items,
          requests, notifications, debts, item_discounts, calls, ret>>

(***************************************************************************)
(* Bounds of the model.                                                     *)
(***************************************************************************)
MaxDay == 2
\* price recalculation (Spec)
PricingMaxDiscounts == 2
PricingMaxItems == 1
\* rule applicability (SpecApplicable)
ApplicableMaxDiscounts == 1
ApplicableMaxItems == 2
\* contract totals (SpecTotals)
TotalsMaxDiscounts == 1
TotalsMaxItems == 3
\* price list (SpecPriceList)
MaxPrices == 2
\* invoices (SpecInvoice, SpecStatus)
MaxInvoices == 2
MaxInvoiceItems == 2

\* concurrent request workers (SpecConcurrent)
MaxWorkers == 2

Days == 1..MaxDay
Workers == 1..MaxWorkers
ContractIds == {1, 2}
SubjectIds == {1, 2}

(***************************************************************************)
(* Nullable columns and Python truthiness.                                  *)
(***************************************************************************)
Null == {}
Some(v) == {v}
Val(x) == CHOOSE v \in x : TRUE
\* "if discount.min_subjects and ...": None and 0 are both falsy
Truthy(x) == x # Null /\ Val(x) # 0

Max(a, b) == IF a >= b THEN a ELSE b
Abs(a) == IF a >= 0 THEN a ELSE -a

RECURSIVE SumOver(_, _)
\* Python's sum(f(x) for x in S), for a function f given as a TLA+ function
SumOver(S, f) ==
    IF S = {} THEN 0
    ELSE LET x == CHOOSE y \in S : TRUE
         IN f[x] + SumOver(S \ {x}, f)

(***************************************************************************)
(* Decimal arithmetic and the numeric(n,2) columns.                         *)
(***************************************************************************)
\* cents -> 1e-6 units
Micro(cents) == cents * 10000

\* the value a numeric(n,2) column keeps of an exact amount given in `unit`
\* parts of a cent: rounded to the nearest cent, ties away from zero
Quantize(x, unit) ==
    IF x >= 0 THEN (2 * x + unit) \div (2 * unit)
    ELSE -((2 * (-x) + unit) \div (2 * unit))

(***************************************************************************)
(* ContractItem.calculate_discounts                                         *)
(***************************************************************************)
\* self.contract.items.filter(is_active=True).count()
SubjectsCount(c) ==
    Cardinality({j \in DOMAIN items : items[j].contract = c /\ items[j].is_active})

\* Discount.objects.filter(is_active=True, valid_from__lte=today)
\*                 .filter(Q(valid_to__isnull=True) | Q(valid_to__gte=today))
ApplicableDiscounts ==
    {d \in DOMAIN discounts :
        /\ discounts[d].is_active
        /\ discounts[d].valid_from <= today
        /\ (discounts[d].valid_to = Null \/ Val(discounts[d].valid_to) >= today)}

\* the orders in which the queryset can yield its rows: Meta.ordering is
\* ['-valid_from'], rows of equal valid_from come in any order
QueryOrders ==
    {o \in [1..Cardinality(ApplicableDiscounts) -> ApplicableDiscounts] :
        /\ \A a, b \in DOMAIN o : a # b => o[a] # o[b]
        /\ \A a, b \in DOMAIN o :
              a < b => discounts[o[a]].valid_from >= discounts[o[b]].valid_from}

\* the two "continue" tests of the loop
Skipped(d, subjects_count) ==
    \/ Truthy(d.min_subjects) /\ subjects_count < Val(d.min_subjects)
    \/ Truthy(d.max_subjects) /\ subjects_count > Val(d.max_subjects)

\* discount_amount of one rule, in 1e-6 units; base_price in cents
DiscountAmount(base_price, d) ==
    IF d.is_percentage THEN base_price * d.value
    ELSE Micro(d.value)

RECURSIVE DiscountLoop(_, _, _, _)
\* "for discount in applicable_discounts: ... total_discount += discount_amount"
DiscountLoop(order, k, base_price, subjects_count) ==
    IF k > Len(order) THEN 0
    ELSE LET d == discounts[order[k]]
             rest == DiscountLoop(order, k + 1, base_price, subjects_count)
         IN IF Skipped(d, subjects_count) THEN rest
            ELSE DiscountAmount(base_price, d) + rest

\* faulty variant: the largest single discount instead of the sum of all of them
calculate_discounts_bestof(i, order) ==
    LET n == SubjectsCount(items[i].contract)
        amounts == {DiscountAmount(items[i].base_price, discounts[order[k]]) :
                       k \in {k \in DOMAIN order : ~Skipped(discounts[order[k]], n)}}
    IN IF amounts = {} THEN 0
       ELSE CHOOSE a \in amounts : \A b \in amounts : b <= a

\* total_discount returned for item i when the rows come in `order` (1e-6 units)
calculate_discounts(i, order) ==
    DiscountLoop(order, 1, items[i].base_price, SubjectsCount(items[i].contract))

\* the rules the loop counted
Counted(i, order) ==
    {order[k] : k \in {k \in DOMAIN order :
        ~Skipped(discounts[order[k]], SubjectsCount(items[i].contract))}}

\* faulty variant: the discount taken off the stored final_price, not off base_price
FinalPriceExact_compounding(i, order) ==
    Max(Micro(items[i].final_price) - calculate_discounts(i, order), 0)

\* max(self.base_price - discount_amount, Decimal('0.00')), in 1e-6 units
FinalPriceExact(i, order) ==
    Max(Micro(items[i].base_price) - calculate_discounts(i, order), 0)

(***************************************************************************)
(* Contract.total_monthly_amount                                            *)
(***************************************************************************)

\* faulty variant: the is_active filter forgotten
total_monthly_amount_all(c) ==
    LET all == {j \in DOMAIN items : items[j].contract = c}
    IN SumOver(all, [j \in DOMAIN items |-> items[j].final_price])
total_monthly_amount(c) ==
    LET active == {j \in DOMAIN items : items[j].contract = c /\ items[j].is_active}
    IN SumOver(active, [j \in DOMAIN items |-> items[j].final_price])

(***************************************************************************)
(* Operations on the discount catalog and on contract items.               *)
(***************************************************************************)
NoCall == [op |-> "none"]
\* a worker that is not inside update_final_price
Idle == [pc |-> "idle"]

\* DiscountAdmin, add form: a new Discount row
AddDiscount(rec, cap) ==
    /\ Len(discounts) < cap
    /\ discounts' = Append(discounts, rec)
    /\ ret' = NoCall
    /\ UNCHANGED <<today, items, prices, invoices, invoice_items,
                   requests, notifications, debts, item_discounts, calls>>

\* DiscountAdmin, change form: is_active edited
SetDiscountActive(d, b) ==
    /\ d \in DOMAIN discounts
    /\ discounts[d].is_active # b
    /\ discounts' = [discounts EXCEPT ![d].is_active = b]
    /\ ret' = NoCall
    /\ UNCHANGED <<today, items, prices, invoices, invoice_items,
                   requests, notifications, debts, item_discounts, calls>>

\* ContractItemAdmin, add form: a new ContractItem row; every field,
\* final_price included, is what the form holds
AddItem(rec, cap) ==
    /\ Len(items) < cap
    /\ items' = Append(items, rec)
    /\ ret' = NoCall
    /\ UNCHANGED <<today, discounts, prices, invoices, invoice_items,
                   requests, notifications, debts, item_discounts, calls>>

\* ContractItemAdmin.activate_items: queryset.update(is_active=True)
activate_items(sel) ==
    /\ sel # {} /\ sel \subseteq DOMAIN items
    /\ items' = [j \in DOMAIN items |->
                    IF j \in sel THEN [items[j] EXCEPT !.is_active = TRUE] ELSE items[j]]
    /\ ret' = NoCall
    /\ UNCHANGED <<today, discounts, prices, invoices, invoice_items,
                   requests, notifications, debts, item_discounts, calls>>

\* faulty variant: deactivation resets the prices of the contract's items
deactivate_items_repricing(sel) ==
    /\ sel # {} /\ sel \subseteq DOMAIN items
    /\ items' = [j \in DOMAIN items |->
                    IF j \in sel
                    THEN [items[j] EXCEPT !.is_active = FALSE]
                    ELSE IF \E s \in sel : items[s].contract = items[j].contract
                    THEN [items[j] EXCEPT !.final_price = items[j].base_price]
                    ELSE items[j]]
    /\ ret' = NoCall
    /\ UNCHANGED <<today, discounts, prices, invoices, invoice_items,
                   requests, notifications, debts, item_discounts, calls>>

\* ContractItemAdmin.deactivate_items: queryset.update(is_active=False)
deactivate_items(sel) ==
    /\ sel # {} /\ sel \subseteq DOMAIN items
    /\ items' = [j \in DOMAIN items |->
                    IF j \in sel THEN [items[j] EXCEPT !.is_active = FALSE] ELSE items[j]]
    /\ ret' = NoCall
    /\ UNCHANGED <<today, discounts, prices, invoices, invoice_items,
                   requests, notifications, debts, item_discounts, calls>>

\* the final_price column after self.save(): numeric(8,2)
FinalPriceStored(i, order) == Quantize(FinalPriceExact(i, order), 10000)

\* faulty variant: the discounted price becomes the item's new base_price
update_final_price_rebasing(i) ==
    /\ i \in DOMAIN items
    /\ \E order \in QueryOrders :
        /\ items' = [items EXCEPT ![i].final_price = FinalPriceStored(i, order),
                                  ![i].base_price = FinalPriceStored(i, order)]
        /\ ret' = [op |-> "update_final_price", item |-> i,
                   counted |-> Counted(i, order),
                   exact |-> FinalPriceExact(i, order),
                   before |-> items[i].final_price,
                   repeat |-> (ret.op = "update_final_price" /\ ret.item = i)]
    /\ UNCHANGED <<today, discounts, prices, invoices, invoice_items,
                   requests, notifications, debts, item_discounts, calls>>

\* faulty variant: the recalculation also reprices the lines already invoiced
update_final_price_repricing(i) ==
    /\ i \in DOMAIN items
    /\ \E order \in QueryOrders :
        /\ items' = [items EXCEPT ![i].final_price = FinalPriceStored(i, order)]
        /\ invoice_items' = [k \in DOMAIN invoice_items |->
                                [invoice_items[k] EXCEPT
                                    !.unit_price = FinalPriceStored(i, order)]]
        /\ ret' = [op |-> "update_final_price", item |-> i,
                   counted |-> Counted(i, order),
                   exact |-> FinalPriceExact(i, order),
                   before |-> items[i].final_price,
                   repeat |-> (ret.op = "update_final_price" /\ ret.item = i)]
    /\ UNCHANGED <<today, discounts, prices, invoices,
                   requests, notifications, debts, item_discounts, calls>>

\* ContractItem.update_final_price on item i (recalculate_prices applied to
\* the one-row queryset {i}).  ret records the call: the rules counted, the
\* exact value assigned to self.final_price, the column's value before the
\* call, and whether the previous operation was the same call on the same
\* item.
update_final_price(i) ==
    /\ i \in DOMAIN items
    /\ \E order \in QueryOrders :
        /\ items' = [items EXCEPT ![i].final_price = FinalPriceStored(i, order)]
        /\ ret' = [op |-> "update_final_price", item |-> i,
                   counted |-> Counted(i, order),
                   exact |-> FinalPriceExact(i, order),
                   before |-> items[i].final_price,
                   repeat |-> (ret.op = "update_final_price" /\ ret.item = i)]
    /\ UNCHANGED <<today, discounts, prices, invoices, invoice_items,
                   requests, notifications, debts, item_discounts, calls>>

\* ContractItemAdmin.recalculate_prices on a queryset of several rows:
\* "for item in queryset: item.update_final_price()"; every item runs its
\* own Discount query
recalculate_prices(sel) ==
    /\ Cardinality(sel) > 1 /\ sel \subseteq DOMAIN items
    /\ \E orders \in [sel -> QueryOrders] :
        items' = [j \in DOMAIN items |->
                    IF j \in sel
                    THEN [items[j] EXCEPT !.final_price = FinalPriceStored(j, orders[j])]
                    ELSE items[j]]
    /\ ret' = [op |-> "recalculate_prices", updated |-> Cardinality(sel)]
    /\ UNCHANGED <<today, discounts, prices, invoices, invoice_items,
                   requests, notifications, debts, item_discounts, calls>>

\* Contract.total_monthly_amount read for contract c
ReadMonthlyTotal(c) ==
    /\ ret' = [op |-> "total_monthly_amount", contract |-> c,
               result |-> total_monthly_amount(c)]
    /\ UNCHANGED <<today, discounts, items, prices, invoices, invoice_items,
                   requests, notifications, debts, item_discounts, calls>>

\* faulty variant: a nightly job marks the sent invoices past due as overdue
AdvanceDay_flagging ==
    /\ today < MaxDay
    /\ today' = today + 1
    /\ invoices' = [v \in DOMAIN invoices |->
                       IF invoices[v].status = "sent" /\ invoices[v].due_date < today + 1
                       THEN [invoices[v] EXCEPT !.status = "overdue"]
                       ELSE invoices[v]]
    /\ ret' = NoCall
    /\ UNCHANGED <<discounts, items, prices, invoice_items,
                   requests, notifications, debts, item_discounts, calls>>

\* the calendar moves on
AdvanceDay ==
    /\ today < MaxDay
    /\ today' = today + 1
    /\ ret' = NoCall
    /\ UNCHANGED <<discounts, items, prices, invoices, invoice_items,
                   requests, notifications, debts, item_discounts, calls>>

(***************************************************************************)
(* Spec: price recalculation.  Up to PricingMaxDiscounts stacking rules of *)
(* either kind, negative values included (Discount.value has no            *)
(* validator), items of one contract.                                      *)
(***************************************************************************)
DiscountValues == {-500, 1000, 1500}
BasePrices == {1, 1000}

PricingRules ==
    [is_percentage : BOOLEAN, value : DiscountValues, valid_from : {1},
     valid_to : {Null}, is_active : {TRUE},
     min_subjects : {Null}, max_subjects : {Null}]

PricingItems ==
    {[contract |-> 1, base_price |-> b, final_price |-> b, is_active |-> TRUE] :
        b \in BasePrices}

Init ==
    /\ today = 1
    /\ discounts = <<>>
    /\ items = <<>>
    /\ prices = <<>>
    /\ invoices = <<>>
    /\ invoice_items = <<>>
    /\ requests = <<>>
    /\ notifications = <<>>
    /\ debts = <<>>
    /\ item_discounts = <<>>
    /\ calls = [w \in Workers |-> Idle]
    /\ ret = NoCall

Next ==
    \/ \E rec \in PricingRules : AddDiscount(rec, PricingMaxDiscounts)
    \/ \E d \in 1..PricingMaxDiscounts, b \in BOOLEAN : SetDiscountActive(d, b)
    \/ \E rec \in PricingItems : AddItem(rec, PricingMaxItems)
    \/ \E i \in 1..PricingMaxItems : update_final_price(i)
    \/ \E sel \in SUBSET (1..PricingMaxItems) : activate_items(sel)
    \/ \E sel \in SUBSET (1..PricingMaxItems) : deactivate_items(sel)

Spec == Init /\ [][Next]_vars

(***************************************************************************)
(* SpecApplicable: which rules calculate_discounts counts.  Rules of every *)
(* validity window and every kind of subject bound, 0 included; the items  *)
(* of one contract, so that its number of active items runs over 0, 1, 2.  *)
(***************************************************************************)
ApplicableRules ==
    [is_percentage : {FALSE}, value : {1000}, valid_from : Days,
     valid_to : {Null, Some(1)}, is_active : BOOLEAN,
     min_subjects : {Null, Some(0), Some(2)},
     max_subjects : {Null, Some(0), Some(1)}]

ApplicableItems ==
    {[contract |-> 1, base_price |-> 2000, final_price |-> 2000, is_active |-> TRUE]}

NextApplicable ==
    \/ \E rec \in ApplicableRules : AddDiscount(rec, ApplicableMaxDiscounts)
    \/ \E rec \in ApplicableItems : AddItem(rec, ApplicableMaxItems)
    \/ \E i \in 1..ApplicableMaxItems : update_final_price(i)
    \/ \E sel \in SUBSET (1..ApplicableMaxItems) : activate_items(sel)
    \/ \E sel \in SUBSET (1..ApplicableMaxItems) : deactivate_items(sel)
    \/ AdvanceDay

SpecApplicable == Init /\ [][NextApplicable]_vars

(***************************************************************************)
(* SpecTotals: the monthly total of a contract.  Items of two contracts    *)
(* with different prices, activated, deactivated and recalculated under a  *)
(* 10 % rule.                                                              *)
(***************************************************************************)
TotalsRules ==
    [is_percentage : {TRUE}, value : {1000}, valid_from : {1},
     valid_to : {Null}, is_active : {TRUE},
     min_subjects : {Null}, max_subjects : {Null}]

TotalsItems ==
    {[contract |-> c, base_price |-> b, final_price |-> b, is_active |-> TRUE] :
        c \in ContractIds, b \in {2000, 3000}}

NextTotals ==
    \/ \E rec \in TotalsRules : AddDiscount(rec, TotalsMaxDiscounts)
    \/ \E rec \in TotalsItems : AddItem(rec, TotalsMaxItems)
    \/ \E i \in 1..TotalsMaxItems : update_final_price(i)
    \/ \E sel \in SUBSET (1..TotalsMaxItems) : recalculate_prices(sel)
    \/ \E sel \in SUBSET (1..TotalsMaxItems) : activate_items(sel)
    \/ \E sel \in SUBSET (1..TotalsMaxItems) : deactivate_items(sel)
    \/ \E c \in ContractIds : ReadMonthlyTotal(c)

SpecTotals == Init /\ [][NextTotals]_vars

(***************************************************************************)
(* Subject.current_price                                                   *)
(***************************************************************************)
\* PriceList.objects.filter(subject=self, valid_from__lte=date.today(),
\*                          is_active=True)
PriceCandidates(s) ==
    {p \in DOMAIN prices :
        /\ prices[p].subject = s
        /\ prices[p].valid_from <= today
        /\ prices[p].is_active}

\* faulty variant: ascending order, the oldest price first
FirstCandidates_oldest(s) ==
    {p \in PriceCandidates(s) :
        \A q \in PriceCandidates(s) : prices[q].valid_from >= prices[p].valid_from}

\* .order_by("-valid_from").first(): a row that no other row precedes; rows
\* of equal valid_from come in any order
FirstCandidates(s) ==
    {p \in PriceCandidates(s) :
        \A q \in PriceCandidates(s) : prices[q].valid_from <= prices[p].valid_from}

\* PriceListAdmin, add form: a new PriceList row
AddPrice(rec) ==
    /\ Len(prices) < MaxPrices
    /\ prices' = Append(prices, rec)
    /\ ret' = NoCall
    /\ UNCHANGED <<today, discounts, items, invoices, invoice_items,
                   requests, notifications, debts, item_discounts, calls>>

\* PriceListAdmin, change form: is_active edited
SetPriceActive(p, b) ==
    /\ p \in DOMAIN prices
    /\ prices[p].is_active # b
    /\ prices' = [prices EXCEPT ![p].is_active = b]
    /\ ret' = NoCall
    /\ UNCHANGED <<today, discounts, items, invoices, invoice_items,
                   requests, notifications, debts, item_discounts, calls>>

\* Subject.current_price read for subject s:
\* "return current_price.price_per_hour if current_price else None"
current_price(s) ==
    /\ \/ /\ PriceCandidates(s) = {}
          /\ ret' = [op |-> "current_price", subject |-> s, result |-> Null]
       \/ \E p \in FirstCandidates(s) :
             ret' = [op |-> "current_price", subject |-> s,
                     result |-> Some(prices[p].price_per_hour)]
    /\ UNCHANGED <<today, discounts, items, prices, invoices, invoice_items,
                   requests, notifications, debts, item_discounts, calls>>

(***************************************************************************)
(* SpecPriceList: the price list of two subjects over MaxDay days.         *)
(***************************************************************************)
PriceRecords ==
    [subject : SubjectIds, price_per_hour : {2000, 2500}, valid_from : Days,
     valid_to : {Null, Some(1)}, is_active : {TRUE}]

NextPriceList ==
    \/ \E rec \in PriceRecords : AddPrice(rec)
    \/ \E p \in 1..MaxPrices, b \in BOOLEAN : SetPriceActive(p, b)
    \/ \E s \in SubjectIds : current_price(s)
    \/ AdvanceDay

SpecPriceList == Init /\ [][NextPriceList]_vars

(***************************************************************************)
(* Invoice and InvoiceItem.  quantity is held in hundredths; the exact     *)
(* line amounts are in 1e-4 units (hundredths of a cent).                  *)
(***************************************************************************)
\* (self.quantity * self.unit_price) - self.discount_amount, in 1e-4 units
LineAmountExact(inst) ==
    inst.quantity * inst.unit_price - inst.discount_amount * 100

\* InvoiceAdmin has subtotal, total_discount and total_amount read-only: an
\* Invoice row is created by code, with the totals its creator gives
AddInvoice(rec) ==
    /\ Len(invoices) < MaxInvoices
    /\ invoices' = Append(invoices, rec)
    /\ ret' = NoCall
    /\ UNCHANGED <<today, discounts, items, prices, invoice_items,
                   requests, notifications, debts, item_discounts, calls>>

\* faulty variant: total_amount computed for a new row only, kept on update
InvoiceItem_save_new_only(k, inst) ==
    /\ k \in 1..(Len(invoice_items) + 1)
    /\ k <= MaxInvoiceItems
    /\ inst.invoice \in DOMAIN invoices
    /\ invoice_items' =
          IF k = Len(invoice_items) + 1
          THEN Append(invoice_items,
                      [inst EXCEPT !.total_amount = Quantize(LineAmountExact(inst), 100)])
          ELSE [invoice_items EXCEPT ![k] = inst]
    /\ ret' = [op |-> "InvoiceItem.save", item |-> k]
    /\ UNCHANGED <<today, discounts, items, prices, invoices,
                   requests, notifications, debts, item_discounts, calls>>

\* InvoiceItem.save of instance `inst` as row k: a new row (k = Len + 1) or
\* an existing one.  inst.total_amount is what the caller had set; the
\* method overwrites it and the total_amount column is numeric(8,2).
InvoiceItem_save(k, inst) ==
    /\ k \in 1..(Len(invoice_items) + 1)
    /\ k <= MaxInvoiceItems
    /\ inst.invoice \in DOMAIN invoices
    /\ LET row == [inst EXCEPT !.total_amount = Quantize(LineAmountExact(inst), 100)]
       IN invoice_items' =
             IF k = Len(invoice_items) + 1 THEN Append(invoice_items, row)
             ELSE [invoice_items EXCEPT ![k] = row]
    /\ ret' = [op |-> "InvoiceItem.save", item |-> k]
    /\ UNCHANGED <<today, discounts, items, prices, invoices,
                   requests, notifications, debts, item_discounts, calls>>

\* self.items.all()
ItemsOf(v) == {k \in DOMAIN invoice_items : invoice_items[k].invoice = v}

\* sum(item.total_amount for item in self.items.all())
Subtotal(v) ==
    SumOver(ItemsOf(v), [k \in DOMAIN invoice_items |-> invoice_items[k].total_amount])

\* faulty variant: the discounts of every invoice's items
TotalDiscount_all(v) ==
    SumOver(DOMAIN invoice_items,
            [k \in DOMAIN invoice_items |-> invoice_items[k].discount_amount])

\* sum(item.discount_amount for item in self.items.all())
TotalDiscount(v) ==
    SumOver(ItemsOf(v), [k \in DOMAIN invoice_items |-> invoice_items[k].discount_amount])

\* Invoice.calculate_totals on invoice v
calculate_totals(v) ==
    /\ v \in DOMAIN invoices
    /\ invoices' = [invoices EXCEPT
                       ![v].subtotal = Subtotal(v),
                       ![v].total_discount = TotalDiscount(v),
                       ![v].total_amount = Subtotal(v) - TotalDiscount(v)]
    /\ ret' = [op |-> "calculate_totals", invoice |-> v]
    /\ UNCHANGED <<today, discounts, items, prices, invoice_items,
                   requests, notifications, debts, item_discounts, calls>>

\* faulty variant: due today counted as overdue
is_overdue_inclusive(v) == invoices[v].status # "paid" /\ invoices[v].due_date <= today

\* Invoice.is_overdue
is_overdue(v) == invoices[v].status # "paid" /\ invoices[v].due_date < today

\* Invoice.is_overdue read for invoice v
ReadIsOverdue(v) ==
    /\ v \in DOMAIN invoices
    /\ ret' = [op |-> "is_overdue", invoice |-> v, result |-> is_overdue(v)]
    /\ UNCHANGED <<today, discounts, items, prices, invoices, invoice_items,
                   requests, notifications, debts, item_discounts, calls>>

INVOICE_STATUS == {"draft", "sent", "paid", "overdue", "cancelled"}

\* InvoiceAdmin, change form: status and due_date are editable fields
EditInvoice(v, status, due_date) ==
    /\ v \in DOMAIN invoices
    /\ invoices' = [invoices EXCEPT ![v].status = status, ![v].due_date = due_date]
    /\ invoices' # invoices
    /\ ret' = NoCall
    /\ UNCHANGED <<today, discounts, items, prices, invoice_items,
                   requests, notifications, debts, item_discounts, calls>>

\* InvoiceAdmin.mark_as_sent: queryset.update(status="sent")
mark_as_sent(sel) ==
    /\ sel # {} /\ sel \subseteq DOMAIN invoices
    /\ invoices' = [v \in DOMAIN invoices |->
                       IF v \in sel THEN [invoices[v] EXCEPT !.status = "sent"]
                       ELSE invoices[v]]
    /\ ret' = NoCall
    /\ UNCHANGED <<today, discounts, items, prices, invoice_items,
                   requests, notifications, debts, item_discounts, calls>>

\* InvoiceAdmin.mark_as_paid: queryset.update(status="paid", paid_date=today)
mark_as_paid(sel) ==
    /\ sel # {} /\ sel \subseteq DOMAIN invoices
    /\ invoices' = [v \in DOMAIN invoices |->
                       IF v \in sel
                       THEN [invoices[v] EXCEPT !.status = "paid", !.paid_date = Some(today)]
                       ELSE invoices[v]]
    /\ ret' = NoCall
    /\ UNCHANGED <<today, discounts, items, prices, invoice_items,
                   requests, notifications, debts, item_discounts, calls>>

(***************************************************************************)
(* SpecInvoice: invoice lines and invoice totals.  Lines of quantity 0,    *)
(* of half a unit at 0.01 (half a cent), of one unit at 20.00 with and     *)
(* without a line discount of 5.00; the caller's own total_amount is 0 or  *)
(* 99.00.                                                                  *)
(***************************************************************************)
InvoiceLines ==
    {[quantity |-> 0, unit_price |-> 2000, discount_amount |-> 500],
     [quantity |-> 50, unit_price |-> 1, discount_amount |-> 0],
     [quantity |-> 100, unit_price |-> 2000, discount_amount |-> 0],
     [quantity |-> 100, unit_price |-> 2000, discount_amount |-> 500]}

NewInvoices(due_dates) ==
    [status : {"draft"}, due_date : due_dates, paid_date : {Null},
     subtotal : {0}, total_discount : {0}, total_amount : {0}]

InvoiceItemInstances ==
    {[invoice |-> v, quantity |-> l.quantity, unit_price |-> l.unit_price,
      discount_amount |-> l.discount_amount, total_amount |-> t] :
        v \in 1..MaxInvoices, l \in InvoiceLines, t \in {0, 9900}}

NextInvoice ==
    \/ \E rec \in NewInvoices({1}) : AddInvoice(rec)
    \/ \E k \in 1..MaxInvoiceItems, inst \in InvoiceItemInstances :
          InvoiceItem_save(k, inst)
    \/ \E v \in 1..MaxInvoices : calculate_totals(v)

SpecInvoice == Init /\ [][NextInvoice]_vars

(***************************************************************************)
(* SpecStatus: invoice status and due date against the calendar.           *)
(***************************************************************************)
NextStatus ==
    \/ \E rec \in NewInvoices(Days) : AddInvoice(rec)
    \/ \E v \in 1..MaxInvoices, s \in INVOICE_STATUS, d \in Days : EditInvoice(v, s, d)
    \/ \E sel \in SUBSET (1..MaxInvoices) : mark_as_sent(sel)
    \/ \E sel \in SUBSET (1..MaxInvoices) : mark_as_paid(sel)
    \/ \E v \in 1..MaxInvoices : ReadIsOverdue(v)
    \/ AdvanceDay

SpecStatus == Init /\ [][NextStatus]_vars

(***************************************************************************)
(* SpecFrozen: invoices next to a changing catalog.  Lines of one unit at  *)
(* 20.00 with and without a line discount are saved and totalled while a   *)
(* percentage rule is created, changed and deactivated, a price record is  *)
(* inserted and deactivated, and a contract item is recalculated.          *)
(***************************************************************************)
FrozenMaxDiscounts == 1
FrozenMaxItems == 1

\* DiscountAdmin, change form: value edited
SetDiscountValue(d, v) ==
    /\ d \in DOMAIN discounts
    /\ discounts[d].value # v
    /\ discounts' = [discounts EXCEPT ![d].value = v]
    /\ ret' = NoCall
    /\ UNCHANGED <<today, items, prices, invoices, invoice_items,
                   requests, notifications, debts, item_discounts, calls>>

FrozenPrices ==
    {[subject |-> 1, price_per_hour |-> 2500, valid_from |-> 1,
      valid_to |-> Null, is_active |-> TRUE]}

FrozenInstances ==
    {[invoice |-> 1, quantity |-> 100, unit_price |-> 2000,
      discount_amount |-> d, total_amount |-> 0] : d \in {0, 500}}

\* the operations on the catalog and on contract prices
CatalogStep ==
    \/ \E rec \in TotalsRules : AddDiscount(rec, FrozenMaxDiscounts)
    \/ \E d \in 1..FrozenMaxDiscounts, b \in BOOLEAN : SetDiscountActive(d, b)
    \/ \E d \in 1..FrozenMaxDiscounts, v \in {1000, 1500} : SetDiscountValue(d, v)
    \/ \E rec \in ApplicableItems : AddItem(rec, FrozenMaxItems)
    \/ \E i \in 1..FrozenMaxItems : update_final_price(i)
    \/ \E rec \in FrozenPrices : AddPrice(rec)
    \/ \E p \in 1..MaxPrices, b \in BOOLEAN : SetPriceActive(p, b)

NextFrozen ==
    \/ \E rec \in NewInvoices({1}) : AddInvoice(rec)
    \/ \E k \in 1..MaxInvoiceItems, inst \in FrozenInstances : InvoiceItem_save(k, inst)
    \/ \E v \in 1..MaxInvoices : calculate_totals(v)
    \/ \E rec \in TotalsRules : AddDiscount(rec, FrozenMaxDiscounts)
    \/ \E d \in 1..FrozenMaxDiscounts, b \in BOOLEAN : SetDiscountActive(d, b)
    \/ \E d \in 1..FrozenMaxDiscounts, v \in {1000, 1500} : SetDiscountValue(d, v)
    \/ \E rec \in ApplicableItems : AddItem(rec, FrozenMaxItems)
    \/ \E i \in 1..FrozenMaxItems : update_final_price(i)
    \/ \E rec \in FrozenPrices : AddPrice(rec)
    \/ \E p \in 1..MaxPrices, b \in BOOLEAN : SetPriceActive(p, b)

SpecFrozen == Init /\ [][NextFrozen]_vars

(***************************************************************************)
(* Debt                                                                     *)
(***************************************************************************)
MaxDebts == 2

\* Debt.mark_as_resolved, the row it saves
Debt_mark_as_resolved(debt) ==
    [debt EXCEPT !.is_resolved = TRUE,
                 !.resolved_date = Some(today),
                 !.remaining_amount = 0]

\* DebtAdmin, add form: a new Debt row
AddDebt(rec) ==
    /\ Len(debts) < MaxDebts
    /\ debts' = Append(debts, rec)
    /\ ret' = NoCall
    /\ UNCHANGED <<today, discounts, items, prices, invoices, invoice_items,
                   requests, notifications, item_discounts, calls>>

\* DebtAdmin, change form: the admin declares no fields and no fieldsets,
\* so every editable column is in the form, is_resolved, remaining_amount
\* and resolved_date included
EditDebt(k, is_resolved, remaining_amount, resolved_date) ==
    /\ k \in DOMAIN debts
    /\ debts' = [debts EXCEPT ![k].is_resolved = is_resolved,
                              ![k].remaining_amount = remaining_amount,
                              ![k].resolved_date = resolved_date]
    /\ debts' # debts
    /\ ret' = NoCall
    /\ UNCHANGED <<today, discounts, items, prices, invoices, invoice_items,
                   requests, notifications, item_discounts, calls>>

\* DebtAdmin.mark_as_resolved: "for debt in queryset: debt.mark_as_resolved()"
mark_as_resolved(sel) ==
    /\ sel # {} /\ sel \subseteq DOMAIN debts
    /\ debts' = [k \in DOMAIN debts |->
                    IF k \in sel THEN Debt_mark_as_resolved(debts[k]) ELSE debts[k]]
    /\ ret' = [op |-> "mark_as_resolved", selected |-> sel,
               updated |-> Cardinality(sel)]
    /\ UNCHANGED <<today, discounts, items, prices, invoices, invoice_items,
                   requests, notifications, item_discounts, calls>>

(***************************************************************************)
(* SpecDebt: debts of 50.00 created open, resolved singly and in bulk,     *)
(* edited in the admin, over MaxDay days.                                   *)
(***************************************************************************)
NewDebts ==
    [original_amount : {5000}, remaining_amount : {2000, 5000},
     is_resolved : {FALSE}, resolved_date : {Null}]

NextDebt ==
    \/ \E rec \in NewDebts : AddDebt(rec)
    \/ \E k \in 1..MaxDebts, b \in BOOLEAN, a \in {0, 5000}, d \in {Null, Some(1)} :
          EditDebt(k, b, a, d)
    \/ \E sel \in SUBSET (1..MaxDebts) : mark_as_resolved(sel)
    \/ AdvanceDay

SpecDebt == Init /\ [][NextDebt]_vars

(***************************************************************************)
(* ContractChangeRequest.calculate_estimated_change.  Here a ContractItem  *)
(* row also carries its child and its subject.                              *)
(***************************************************************************)
MaxRequests == 2
EstimateMaxItems == 2

\* the values Subject.current_price can return for subject s
CurrentPrices(s) ==
    IF PriceCandidates(s) = {} THEN {Null}
    ELSE {Some(prices[p].price_per_hour) : p \in FirstCandidates(s)}

\* self.contract.items.get(child=self.child, subject=self.subject,
\*                         is_active=True): the rows it can find
MatchingItems(req) ==
    {j \in DOMAIN items :
        /\ items[j].contract = Val(req.contract)
        /\ items[j].child = Val(req.child)
        /\ items[j].subject = Val(req.subject)
        /\ items[j].is_active}

\* the values self.estimated_monthly_change can have after
\* calculate_estimated_change on instance req; an attribute that no branch
\* assigns keeps the value it had
EstimatedChange(req) ==
    IF req.request_type = "add_subject" /\ req.subject # Null
    THEN {IF Truthy(cp) THEN cp ELSE req.estimated_monthly_change :
             cp \in CurrentPrices(Val(req.subject))}
    ELSE IF req.request_type = "remove_subject"
              /\ req.contract # Null /\ req.child # Null /\ req.subject # Null
    THEN IF MatchingItems(req) = {} THEN {Some(0)}
         ELSE {Some(-items[j].final_price) : j \in MatchingItems(req)}
    ELSE {req.estimated_monthly_change}

\* ContractItemAdmin, add form, under unique_together = ['contract',
\* 'child', 'subject']
AddContractItem(rec, cap) ==
    /\ Len(items) < cap
    /\ \A j \in DOMAIN items :
          <<items[j].contract, items[j].child, items[j].subject>>
              # <<rec.contract, rec.child, rec.subject>>
    /\ items' = Append(items, rec)
    /\ ret' = NoCall
    /\ UNCHANGED <<today, discounts, prices, invoices, invoice_items,
                   requests, notifications, debts, item_discounts, calls>>

\* calculate_estimated_change called on instance req; ret holds the
\* instance's estimated_monthly_change after the call
calculate_estimated_change(req) ==
    /\ \E e \in EstimatedChange(req) :
          ret' = [op |-> "calculate_estimated_change", request |-> req, estimate |-> e]
    /\ UNCHANGED <<today, discounts, items, prices, invoices, invoice_items,
                   requests, notifications, debts, item_discounts, calls>>

\* ContractChangeRequestForm.clean
FormIsValid(form) ==
    /\ form.request_type \in {"add_subject", "remove_subject"} => form.subject # Null
    /\ (form.request_type = "remove_subject" /\ form.subject # Null /\ form.child # Null) =>
          \E j \in DOMAIN items :
              /\ form.contract # Null /\ items[j].contract = Val(form.contract)
              /\ items[j].child = Val(form.child)
              /\ items[j].subject = Val(form.subject)
              /\ items[j].is_active

\* create_contract_request (POST): the valid form's instance is estimated
\* and saved
create_contract_request(form) ==
    /\ Len(requests) < MaxRequests
    /\ FormIsValid(form)
    /\ \E e \in EstimatedChange(form) :
          requests' = Append(requests, [form EXCEPT !.estimated_monthly_change = e])
    /\ ret' = [op |-> "create_contract_request", request |-> Len(requests) + 1]
    /\ UNCHANGED <<today, discounts, items, prices, invoices, invoice_items,
                   notifications, debts, item_discounts, calls>>

(***************************************************************************)
(* SpecEstimate: estimates for requests of every type, with and without    *)
(* contract, child and subject, against a price list holding 0.00 and      *)
(* 30.00 and the contract items of two children, one of them recalculated  *)
(* to 27.00.                                                               *)
(***************************************************************************)
EstimatePrices ==
    [subject : {1}, price_per_hour : {0, 3000}, valid_from : Days,
     valid_to : {Null}, is_active : {TRUE}]

EstimateItems ==
    {[contract |-> 1, child |-> 1, subject |-> 1, base_price |-> 3000,
      final_price |-> 2700, is_active |-> TRUE],
     [contract |-> 1, child |-> 2, subject |-> 1, base_price |-> 3000,
      final_price |-> 3000, is_active |-> TRUE]}

RequestInstances ==
    [request_type : {"add_subject", "remove_subject", "change_schedule"},
     contract : {Null, Some(1)}, child : {Null, Some(1)}, subject : {Null, Some(1)},
     status : {"pending"}, estimated_monthly_change : {Null},
     processed_by : {Null}, rejection_reason : {""}]

NextEstimate ==
    \/ \E rec \in EstimatePrices : AddPrice(rec)
    \/ \E p \in 1..MaxPrices, b \in BOOLEAN : SetPriceActive(p, b)
    \/ \E rec \in EstimateItems : AddContractItem(rec, EstimateMaxItems)
    \/ \E sel \in SUBSET (1..EstimateMaxItems) : activate_items(sel)
    \/ \E sel \in SUBSET (1..EstimateMaxItems) : deactivate_items(sel)
    \/ \E req \in RequestInstances : calculate_estimated_change(req)
    \/ AdvanceDay

SpecEstimate == Init /\ [][NextEstimate]_vars

(***************************************************************************)
(* ContractChangeRequestAdmin: approve_requests and reject_requests, with  *)
(* the notifications they create.                                           *)
(***************************************************************************)
MaxNotifications == 4

\* the staff user running the admin, the users whose profile has the role
\* "accountant", and the parent who submits the requests
AdminUser == 1
Accountants == {2}
ParentUser == 3

STATUS_CHOICES == {"pending", "approved", "rejected", "processing"}

\* ContractChangeRequestAdmin, change form: status is an editable field
EditRequest(r, status) ==
    /\ r \in DOMAIN requests
    /\ requests[r].status # status
    /\ requests' = [requests EXCEPT ![r].status = status]
    /\ ret' = NoCall
    /\ UNCHANGED <<today, discounts, items, prices, invoices, invoice_items,
                   notifications, debts, item_discounts, calls>>

\* the requests among 1..r that are selected and have a status in
\* `statuses`, in Meta.ordering ['-created_at']: the latest first
RECURSIVE SelectedOrder(_, _, _)
SelectedOrder(sel, r, statuses) ==
    IF r = 0 THEN <<>>
    ELSE (IF r \in sel /\ requests[r].status \in statuses THEN <<r>> ELSE <<>>)
            \o SelectedOrder(sel, r - 1, statuses)

\* queryset.filter(status="pending")
PendingOrder(sel, r) == SelectedOrder(sel, r, {"pending"})

\* notify_contract_request_status for request r saved with `status`: one
\* Notification for the parent, and for an approved request one for every
\* accountant
RECURSIVE ToAccountants(_, _)
ToAccountants(r, S) ==
    IF S = {} THEN <<>>
    ELSE LET a == CHOOSE x \in S : TRUE
         IN <<[recipient |-> a, priority |-> "normal", request |-> r]>>
                \o ToAccountants(r, S \ {a})

notify_contract_request_status(r, status) ==
    <<[recipient |-> ParentUser,
       priority |-> IF status = "rejected" THEN "high" ELSE "normal",
       request |-> r]>>
        \o (IF status = "approved" THEN ToAccountants(r, Accountants) ELSE <<>>)

RECURSIVE NotifyEach(_, _, _)
NotifyEach(order, k, status) ==
    IF k > Len(order) THEN <<>>
    ELSE notify_contract_request_status(order[k], status)
            \o NotifyEach(order, k + 1, status)

\* faulty variant: every selected request is approved, whatever its status
approve_requests_any(sel) ==
    /\ sel # {} /\ sel \subseteq DOMAIN requests
    /\ Len(notifications) + Cardinality(sel) * (1 + Cardinality(Accountants))
          <= MaxNotifications
    /\ requests' = [r \in DOMAIN requests |->
                       IF r \in sel
                       THEN [requests[r] EXCEPT !.status = "approved",
                                                !.processed_by = Some(AdminUser)]
                       ELSE requests[r]]
    /\ notifications' = notifications \o
          NotifyEach(SelectedOrder(sel, Len(requests), STATUS_CHOICES), 1, "approved")
    /\ ret' = [op |-> "approve_requests", selected |-> sel,
               updated |-> Cardinality(sel)]
    /\ UNCHANGED <<today, discounts, items, prices, invoices, invoice_items,
                   debts, item_discounts, calls>>

\* faulty variant: approving a remove_subject request also deactivates the
\* contract item it names
approve_requests_applying(sel) ==
    LET order == PendingOrder(sel, Len(requests))
        processed == {order[k] : k \in DOMAIN order}
    IN /\ sel # {} /\ sel \subseteq DOMAIN requests
       /\ Len(notifications) + Len(order) * (1 + Cardinality(Accountants))
             <= MaxNotifications
       /\ requests' = [r \in DOMAIN requests |->
                          IF r \in processed
                          THEN [requests[r] EXCEPT !.status = "approved",
                                                   !.processed_by = Some(AdminUser)]
                          ELSE requests[r]]
       /\ items' = [j \in DOMAIN items |->
                       IF \E r \in processed :
                             /\ requests[r].request_type = "remove_subject"
                             /\ requests[r].contract = {items[j].contract}
                             /\ requests[r].child = {items[j].child}
                             /\ requests[r].subject = {items[j].subject}
                       THEN [items[j] EXCEPT !.is_active = FALSE]
                       ELSE items[j]]
       /\ notifications' = notifications \o NotifyEach(order, 1, "approved")
       /\ ret' = [op |-> "approve_requests", selected |-> sel, updated |-> Len(order)]
       /\ UNCHANGED <<today, discounts, prices, invoices, invoice_items,
                      debts, item_discounts, calls>>

\* ContractChangeRequestAdmin.approve_requests on the selection sel
approve_requests(sel) ==
    LET order == PendingOrder(sel, Len(requests))
        processed == {order[k] : k \in DOMAIN order}
    IN /\ sel # {} /\ sel \subseteq DOMAIN requests
       /\ Len(notifications) + Len(order) * (1 + Cardinality(Accountants))
             <= MaxNotifications
       /\ requests' = [r \in DOMAIN requests |->
                          IF r \in processed
                          THEN [requests[r] EXCEPT !.status = "approved",
                                                   !.processed_by = Some(AdminUser)]
                          ELSE requests[r]]
       /\ notifications' = notifications \o NotifyEach(order, 1, "approved")
       /\ ret' = [op |-> "approve_requests", selected |-> sel, updated |-> Len(order)]
       /\ UNCHANGED <<today, discounts, items, prices, invoices, invoice_items,
                      debts, item_discounts, calls>>

\* ContractChangeRequestAdmin.reject_requests on the selection sel
reject_requests(sel) ==
    LET order == PendingOrder(sel, Len(requests))
        processed == {order[k] : k \in DOMAIN order}
    IN /\ sel # {} /\ sel \subseteq DOMAIN requests
       /\ Len(notifications) + Len(order) <= MaxNotifications
       /\ requests' = [r \in DOMAIN requests |->
                          IF r \in processed
                          THEN [requests[r] EXCEPT
                                   !.status = "rejected",
                                   !.processed_by = Some(AdminUser),
                                   !.rejection_reason =
                                       IF requests[r].rejection_reason # ""
                                       THEN requests[r].rejection_reason
                                       ELSE "Abgelehnt durch Administrator"]
                          ELSE requests[r]]
       /\ notifications' = notifications \o NotifyEach(order, 1, "rejected")
       /\ ret' = [op |-> "reject_requests", selected |-> sel, updated |-> Len(order)]
       /\ UNCHANGED <<today, discounts, items, prices, invoices, invoice_items,
                      debts, item_discounts, calls>>

(***************************************************************************)
(* SpecRequests: requests submitted through the parent form for a child's  *)
(* contract item, then approved, rejected and edited in the admin.         *)
(***************************************************************************)
RequestsMaxItems == 1

RequestForms ==
    {[request_type |-> "remove_subject", contract |-> Some(1), child |-> c,
      subject |-> Some(1), status |-> "pending", estimated_monthly_change |-> Null,
      processed_by |-> Null, rejection_reason |-> ""] : c \in {Null, Some(1)}}

RequestsItems ==
    {[contract |-> 1, child |-> 1, subject |-> 1, base_price |-> 3000,
      final_price |-> 2700, is_active |-> TRUE]}

NextRequests ==
    \/ \E rec \in RequestsItems : AddContractItem(rec, RequestsMaxItems)
    \/ \E form \in RequestForms : create_contract_request(form)
    \/ \E r \in 1..MaxRequests, s \in STATUS_CHOICES : EditRequest(r, s)
    \/ \E sel \in SUBSET (1..MaxRequests) : approve_requests(sel)
    \/ \E sel \in SUBSET (1..MaxRequests) : reject_requests(sel)

SpecRequests == Init /\ [][NextRequests]_vars

(***************************************************************************)
(* SpecFailure: recalculations that fail.  update_final_price runs on an   *)
(* instance whose base_price attribute may be None, and the single UPDATE  *)
(* statement of each save() is either executed or rejected by the          *)
(* database (numeric field overflow, lost connection); autocommit is on,   *)
(* there is no transaction around the callers and no signal receiver.      *)
(***************************************************************************)
FailureMaxDiscounts == 1
FailureMaxItems == 2

\* the exception, if any, that update_final_price raises: "self.base_price *
\* discount.value" in the loop or "self.base_price - discount_amount" raise
\* TypeError on None before anything is assigned; self.save() raises the
\* database's error
UpdateError(missing, accepted) ==
    IF missing THEN "TypeError"
    ELSE IF ~accepted THEN "DatabaseError"
    ELSE "none"

\* faulty variant: a missing base_price is taken as 0.00 and the result saved
update_final_price_call_swallowing(i, missing, accepted) ==
    /\ i \in DOMAIN items
    /\ \E order \in QueryOrders :
        /\ items' = IF missing /\ accepted
                    THEN [items EXCEPT ![i].final_price = 0]
                    ELSE IF accepted
                    THEN [items EXCEPT ![i].final_price = FinalPriceStored(i, order)]
                    ELSE items
        /\ ret' = [op |-> "call", method |-> "update_final_price", row |-> i,
                   missing |-> missing,
                   error |-> IF accepted THEN "none" ELSE "DatabaseError",
                   stored |-> items[i]]
    /\ UNCHANGED <<today, discounts, prices, invoices, invoice_items,
                   requests, notifications, debts, item_discounts, calls>>

\* ContractItem.update_final_price on an instance of row i.  `missing`: the
\* instance's base_price is None; `accepted`: the database executes the
\* UPDATE of self.save().  ret records the exception raised to the caller
\* and the row as it was stored before the call.
update_final_price_call(i, missing, accepted) ==
    /\ i \in DOMAIN items
    /\ \E order \in QueryOrders :
        /\ items' = IF UpdateError(missing, accepted) = "none"
                    THEN [items EXCEPT ![i].final_price = FinalPriceStored(i, order)]
                    ELSE items
        /\ ret' = [op |-> "call", method |-> "update_final_price", row |-> i,
                   missing |-> missing,
                   error |-> UpdateError(missing, accepted),
                   stored |-> items[i]]
    /\ UNCHANGED <<today, discounts, prices, invoices, invoice_items,
                   requests, notifications, debts, item_discounts, calls>>

\* Invoice.calculate_totals on invoice v: the three attributes are assigned
\* on the instance and written by one UPDATE of the three columns
\* (save(update_fields=[...])), which the database executes or rejects
calculate_totals_call(v, accepted) ==
    /\ v \in DOMAIN invoices
    /\ invoices' = IF accepted
                   THEN [invoices EXCEPT
                            ![v].subtotal = Subtotal(v),
                            ![v].total_discount = TotalDiscount(v),
                            ![v].total_amount = Subtotal(v) - TotalDiscount(v)]
                   ELSE invoices
    /\ ret' = [op |-> "call", method |-> "calculate_totals", row |-> v,
               missing |-> FALSE,
               error |-> IF accepted THEN "none" ELSE "DatabaseError",
               stored |-> invoices[v]]
    /\ UNCHANGED <<today, discounts, items, prices, invoice_items,
                   requests, notifications, debts, item_discounts, calls>>

NextFailure ==
    \/ \E rec \in TotalsRules : AddDiscount(rec, FailureMaxDiscounts)
    \/ \E d \in 1..FailureMaxDiscounts, b \in BOOLEAN : SetDiscountActive(d, b)
    \/ \E rec \in ApplicableItems : AddItem(rec, FailureMaxItems)
    \/ \E i \in 1..FailureMaxItems, missing \in BOOLEAN, accepted \in BOOLEAN :
          update_final_price_call(i, missing, accepted)
    \/ \E rec \in NewInvoices({1}) : AddInvoice(rec)
    \/ \E k \in 1..MaxInvoiceItems, inst \in FrozenInstances : InvoiceItem_save(k, inst)
    \/ \E v \in 1..MaxInvoices, accepted \in BOOLEAN : calculate_totals_call(v, accepted)

SpecFailure == Init /\ [][NextFailure]_vars

(***************************************************************************)
(* SpecConcurrent: update_final_price called by concurrent requests.  Each *)
(* worker runs recalculate_prices on one row; its SQL statements are the   *)
(* steps: the SELECT that loads the instance, the COUNT of the contract's  *)
(* active items, the SELECT of the applicable discounts, the UPDATE of     *)
(* self.save().  Nothing locks the row (no select_for_update, no           *)
(* transaction, no version column), and the catalog and the items change   *)
(* between the steps.                                                      *)
(***************************************************************************)
ConcurrentMaxDiscounts == 1
ConcurrentMaxItems == 1

\* "for item in queryset": the instance is loaded from row i
LoadItem(w, i) ==
    /\ calls[w].pc = "idle"
    /\ i \in DOMAIN items
    /\ calls' = [calls EXCEPT ![w] =
                    [pc |-> "loaded", item |-> i, instance |-> items[i],
                     subjects_count |-> 0, overtaken |-> Null]]
    /\ ret' = NoCall
    /\ UNCHANGED <<today, discounts, items, prices, invoices, invoice_items,
                   requests, notifications, debts, item_discounts>>

\* subjects_count = self.contract.items.filter(is_active=True).count()
CountSubjects(w) ==
    /\ calls[w].pc = "loaded"
    /\ calls' = [calls EXCEPT ![w].pc = "counted",
                              ![w].subjects_count =
                                  SubjectsCount(calls[w].instance.contract)]
    /\ ret' = NoCall
    /\ UNCHANGED <<today, discounts, items, prices, invoices, invoice_items,
                   requests, notifications, debts, item_discounts>>

\* the loop over applicable_discounts (the queryset is read when the loop
\* starts) and "self.final_price = max(self.base_price - discount_amount, 0)";
\* the attribute holds the unrounded Decimal, in 1e-6 units, until it is saved
CalculateFinalPrice(w) ==
    /\ calls[w].pc = "counted"
    /\ \E order \in QueryOrders :
        LET inst == calls[w].instance
            exact == Max(Micro(inst.base_price)
                           - DiscountLoop(order, 1, inst.base_price,
                                          calls[w].subjects_count), 0)
        IN calls' = [calls EXCEPT ![w].pc = "calculated",
                                  ![w].instance.final_price = exact]
    /\ ret' = NoCall
    /\ UNCHANGED <<today, discounts, items, prices, invoices, invoice_items,
                   requests, notifications, debts, item_discounts>>

\* the in-flight calls on item i other than w's learn that value v was saved
Overtake(w, i, v) ==
    [u \in Workers |->
        IF u = w THEN Idle
        ELSE IF calls[u].pc # "idle" /\ calls[u].item = i
        THEN [calls[u] EXCEPT !.overtaken = Some(v)]
        ELSE calls[u]]

\* faulty variant: the save is refused when another save of the row came first
SaveItem_checked(w) ==
    /\ calls[w].pc = "calculated"
    /\ LET i == calls[w].item
           row == [calls[w].instance EXCEPT
                      !.final_price = Quantize(calls[w].instance.final_price, 10000)]
           conflict == calls[w].overtaken # Null
       IN /\ items' = IF conflict THEN items ELSE [items EXCEPT ![i] = row]
          /\ calls' = IF conflict THEN [calls EXCEPT ![w] = Idle]
                      ELSE Overtake(w, i, row.final_price)
          /\ ret' = [op |-> "save", worker |-> w, item |-> i,
                     written |-> row.final_price,
                     error |-> IF conflict THEN "conflict" ELSE "none",
                     overtaken |-> calls[w].overtaken]
    /\ UNCHANGED <<today, discounts, prices, invoices, invoice_items,
                   requests, notifications, debts, item_discounts>>

\* self.save(): one UPDATE of every column of the row from the instance's
\* attributes, final_price into numeric(8,2).  ret records the value written
\* and, if another worker saved the same row since this call loaded it, the
\* value that worker wrote.
SaveItem(w) ==
    /\ calls[w].pc = "calculated"
    /\ LET i == calls[w].item
           row == [calls[w].instance EXCEPT
                      !.final_price = Quantize(calls[w].instance.final_price, 10000)]
       IN /\ items' = [items EXCEPT ![i] = row]
          /\ calls' = Overtake(w, i, row.final_price)
          /\ ret' = [op |-> "save", worker |-> w, item |-> i,
                     written |-> row.final_price,
                     error |-> "none",
                     overtaken |-> calls[w].overtaken]
    /\ UNCHANGED <<today, discounts, prices, invoices, invoice_items,
                   requests, notifications, debts, item_discounts>>

NextConcurrent ==
    \/ \E rec \in TotalsRules : AddDiscount(rec, ConcurrentMaxDiscounts)
    \/ \E d \in 1..ConcurrentMaxDiscounts, b \in BOOLEAN : SetDiscountActive(d, b)
    \/ \E rec \in ApplicableItems : AddItem(rec, ConcurrentMaxItems)
    \/ \E sel \in SUBSET (1..ConcurrentMaxItems) : activate_items(sel)
    \/ \E sel \in SUBSET (1..ConcurrentMaxItems) : deactivate_items(sel)
    \/ \E w \in Workers, i \in 1..ConcurrentMaxItems : LoadItem(w, i)
    \/ \E w \in Workers : CountSubjects(w)
    \/ \E w \in Workers : CalculateFinalPrice(w)
    \/ \E w \in Workers : SaveItem(w)

SpecConcurrent == Init /\ [][NextConcurrent]_vars

(***************************************************************************)
(* SpecLines: the lines of an invoice against its stored totals.  Lines of *)
(* one unit at 20.00, with and without a line discount of 5.00, are        *)
(* created, saved again and deleted through the InvoiceItem inline, the    *)
(* invoice is edited in its change form, and calculate_totals is called.   *)
(***************************************************************************)
\* faulty variant: deleting a line takes its amounts off the invoice's totals
DeleteInvoiceItem_totalling(k) ==
    /\ k \in DOMAIN invoice_items
    /\ invoice_items' = [j \in 1..(Len(invoice_items) - 1) |->
                            IF j < k THEN invoice_items[j] ELSE invoice_items[j + 1]]
    /\ LET v == invoice_items[k].invoice
       IN invoices' = [invoices EXCEPT
              ![v].subtotal = @ - invoice_items[k].total_amount,
              ![v].total_discount = @ - invoice_items[k].discount_amount,
              ![v].total_amount = @ - invoice_items[k].total_amount
                                    + invoice_items[k].discount_amount]
    /\ ret' = [op |-> "InvoiceItem.delete", item |-> k,
               invoice |-> invoice_items[k].invoice]
    /\ UNCHANGED <<today, discounts, items, prices,
                   requests, notifications, debts, item_discounts, calls>>

\* InvoiceItemInline, "delete" ticked: the row is deleted (no delete()
\* override, no signal receiver); the rows after it move up in the table
DeleteInvoiceItem(k) ==
    /\ k \in DOMAIN invoice_items
    /\ invoice_items' = [j \in 1..(Len(invoice_items) - 1) |->
                            IF j < k THEN invoice_items[j] ELSE invoice_items[j + 1]]
    /\ ret' = [op |-> "InvoiceItem.delete", item |-> k,
               invoice |-> invoice_items[k].invoice]
    /\ UNCHANGED <<today, discounts, items, prices, invoices,
                   requests, notifications, debts, item_discounts, calls>>

LinesInstances ==
    {[invoice |-> v, quantity |-> 100, unit_price |-> 2000,
      discount_amount |-> d, total_amount |-> 0] :
        v \in 1..MaxInvoices, d \in {0, 500}}

NextLines ==
    \/ \E rec \in NewInvoices({1}) : AddInvoice(rec)
    \/ \E v \in 1..MaxInvoices, s \in {"draft", "sent"} : EditInvoice(v, s, 1)
    \/ \E k \in 1..MaxInvoiceItems, inst \in LinesInstances : InvoiceItem_save(k, inst)
    \/ \E k \in 1..MaxInvoiceItems : DeleteInvoiceItem(k)
    \/ \E v \in 1..MaxInvoices : calculate_totals(v)

SpecLines == Init /\ [][NextLines]_vars

(***************************************************************************)
(* SpecFrame: what recalculation and (de)activation write.  ContractItem   *)
(* rows carry price_date, payer and hours_per_month as well; the 10 % rule *)
(* applies to every contract or only from two active items on, so that     *)
(* (de)activating an item changes the price of the others.                 *)
(***************************************************************************)
FrameMaxDiscounts == 1
FrameMaxItems == 2

FrameRules ==
    [is_percentage : {TRUE}, value : {1000}, valid_from : {1},
     valid_to : {Null}, is_active : {TRUE},
     min_subjects : {Null, Some(2)}, max_subjects : {Null}]

FrameItems ==
    [contract : {1}, base_price : {2000}, final_price : {2000},
     is_active : {TRUE}, price_date : {1},
     payer : {"client", "jobcenter"}, hours_per_month : {4, 8}]

NextFrame ==
    \/ \E rec \in FrameRules : AddDiscount(rec, FrameMaxDiscounts)
    \/ \E d \in 1..FrameMaxDiscounts, b \in BOOLEAN : SetDiscountActive(d, b)
    \/ \E rec \in FrameItems : AddItem(rec, FrameMaxItems)
    \/ \E i \in 1..FrameMaxItems : update_final_price(i)
    \/ \E sel \in SUBSET (1..FrameMaxItems) : recalculate_prices(sel)
    \/ \E sel \in SUBSET (1..FrameMaxItems) : activate_items(sel)
    \/ \E sel \in SUBSET (1..FrameMaxItems) : deactivate_items(sel)

SpecFrame == Init /\ [][NextFrame]_vars

(***************************************************************************)
(* SpecChangelist: the "Monatssumme" column of the Contract changelist.    *)
(* Amounts shown are in cents; the text is the amount with two decimals    *)
(* and the euro sign, inside a coloured span for sepa and jobcenter.       *)
(***************************************************************************)
ChangelistMaxItems == 2

PAYMENT_TYPES == {"self", "sepa", "jobcenter", "mixed"}

\* "total = obj.total_monthly_amount()": total_monthly_amount is a property,
\* so the attribute access yields the sum (a Decimal, or the int 0 of an empty
\* sum) and the parentheses call that number, which raises TypeError
CallTotalMonthlyAmount(c) ==
    [value |-> total_monthly_amount(c), raised |-> "TypeError"]

\* ContractAdmin.get_monthly_total for contract c of the given payment_type:
\* the amount shown and its colour
get_monthly_total(c, payment_type) ==
    LET total == CallTotalMonthlyAmount(c)
    IN IF total.raised \in {"ValueError", "TypeError", "AttributeError"}
       THEN [cents |-> 0, colour |-> "none"]
       ELSE [cents |-> total.value,
             colour |-> CASE payment_type = "sepa" -> "green"
                          [] payment_type = "jobcenter" -> "blue"
                          [] OTHER -> "none"]

\* the changelist renders the column for contract c
ShowMonthlyTotal(c, payment_type) ==
    /\ ret' = [op |-> "get_monthly_total", contract |-> c,
               shown |-> get_monthly_total(c, payment_type)]
    /\ UNCHANGED <<today, discounts, items, prices, invoices, invoice_items,
                   requests, notifications, debts, item_discounts, calls>>

NextChangelist ==
    \/ \E rec \in TotalsItems : AddItem(rec, ChangelistMaxItems)
    \/ \E sel \in SUBSET (1..ChangelistMaxItems) : activate_items(sel)
    \/ \E sel \in SUBSET (1..ChangelistMaxItems) : deactivate_items(sel)
    \/ \E c \in ContractIds, pt \in PAYMENT_TYPES : ShowMonthlyTotal(c, pt)

SpecChangelist == Init /\ [][NextChangelist]_vars

(***************************************************************************)
(* SpecTotalling: calculate_totals next to concurrent changes of the       *)
(* invoice's lines.  The SQL statements of the method are the steps: the   *)
(* SELECT of the first self.items.all(), the SELECT of the second, the     *)
(* UPDATE of the three totals; autocommit, no transaction, so every        *)
(* statement sees the lines as they are committed when it runs.  One       *)
(* request totals an invoice while lines of one unit at 20.00, with and    *)
(* without a discount of 5.00, are saved and deleted on the first invoice. *)
(***************************************************************************)
\* the request that runs calculate_totals; the changes of the lines come from
\* other requests
TotallingWorker == 1

\* "self.subtotal = sum(item.total_amount for item in self.items.all())".
\* The call also notes what the other sum is over the rows of this SELECT.
ReadSubtotal(w, v) ==
    /\ calls[w].pc = "idle"
    /\ v \in DOMAIN invoices
    /\ calls' = [calls EXCEPT ![w] =
                    [pc |-> "subtotal", invoice |-> v,
                     subtotal |-> Subtotal(v), total_discount |-> 0,
                     first |-> <<Subtotal(v), TotalDiscount(v)>>,
                     second |-> <<0, 0>>]]
    /\ ret' = NoCall
    /\ UNCHANGED <<today, discounts, items, prices, invoices, invoice_items,
                   requests, notifications, debts, item_discounts>>

\* "self.total_discount = sum(item.discount_amount for item in
\* self.items.all())": a second queryset, a second SELECT
ReadTotalDiscount(w) ==
    /\ calls[w].pc = "subtotal"
    /\ LET v == calls[w].invoice
       IN calls' = [calls EXCEPT ![w].pc = "discount",
                                 ![w].total_discount = TotalDiscount(v),
                                 ![w].second = <<Subtotal(v), TotalDiscount(v)>>]
    /\ ret' = NoCall
    /\ UNCHANGED <<today, discounts, items, prices, invoices, invoice_items,
                   requests, notifications, debts, item_discounts>>

\* "self.total_amount = self.subtotal - self.total_discount" and
\* self.save(update_fields=['subtotal', 'total_discount', 'total_amount'])
SaveTotals(w) ==
    /\ calls[w].pc = "discount"
    /\ LET v == calls[w].invoice
       IN /\ invoices' = [invoices EXCEPT
                  ![v].subtotal = calls[w].subtotal,
                  ![v].total_discount = calls[w].total_discount,
                  ![v].total_amount = calls[w].subtotal - calls[w].total_discount]
          /\ ret' = [op |-> "calculate_totals returned", invoice |-> v,
                     first |-> calls[w].first, second |-> calls[w].second]
    /\ calls' = [calls EXCEPT ![w] = Idle]
    /\ UNCHANGED <<today, discounts, items, prices, invoice_items,
                   requests, notifications, debts, item_discounts>>

NextTotalling ==
    \/ \E rec \in NewInvoices({1}) : AddInvoice(rec)
    \/ \E k \in 1..MaxInvoiceItems, inst \in FrozenInstances : InvoiceItem_save(k, inst)
    \/ \E k \in 1..MaxInvoiceItems : DeleteInvoiceItem(k)
    \/ \E v \in 1..MaxInvoices : ReadSubtotal(TotallingWorker, v)
    \/ ReadTotalDiscount(TotallingWorker)
    \/ SaveTotals(TotallingWorker)

SpecTotalling == Init /\ [][NextTotalling]_vars

(***************************************************************************)
(* SpecActions: invoices created as drafts and changed by the two admin    *)
(* actions only, on any selection, while the days pass.                    *)
(***************************************************************************)
NextActions ==
    \/ \E rec \in NewInvoices(Days) : AddInvoice(rec)
    \/ \E sel \in SUBSET (1..MaxInvoices) : mark_as_sent(sel)
    \/ \E sel \in SUBSET (1..MaxInvoices) : mark_as_paid(sel)
    \/ AdvanceDay

SpecActions == Init /\ [][NextActions]_vars

(***************************************************************************)
(* SpecPreview: the estimate previewed by the AJAX endpoint against the    *)
(* estimate stored with the submitted request.  One parent with one child  *)
(* who can hold the subject in two contracts, at 27.00 in the first        *)
(* contract and at 30.00 in the second; a price list at 30.00.             *)
(***************************************************************************)
PreviewMaxItems == 2

\* float(...) of an amount of two decimals and "{:.2f}" of that float: the
\* float is off by far less than 1e-6, the format rounds to cents
FormattedChange(cents) == Quantize(Micro(cents), 10000)

\* ContractItem.objects.filter(child=child, subject_id=subject_id,
\*                             is_active=True): no filter on the contract
PreviewItemsOf(form) ==
    {j \in DOMAIN items :
        /\ items[j].child = Val(form.child)
        /\ items[j].subject = Val(form.subject)
        /\ items[j].is_active}

\* calculate_price_estimate for the request_type, subject_id and child_id of
\* the form as the page sends them: the values "estimated_change" can have,
\* in cents.  .first() on the unordered queryset orders by primary key.
calculate_price_estimate(form) ==
    IF form.request_type = "add_subject" /\ form.subject # Null
    THEN {IF Truthy(cp) THEN FormattedChange(Val(cp)) ELSE 0 :
             cp \in CurrentPrices(Val(form.subject))}
    ELSE IF form.request_type = "remove_subject"
              /\ form.subject # Null /\ form.child # Null
              /\ PreviewItemsOf(form) # {}
    THEN LET first == CHOOSE j \in PreviewItemsOf(form) :
                          \A k \in PreviewItemsOf(form) : j <= k
         IN {FormattedChange(-items[first].final_price)}
    ELSE {0}

\* the parent fills in the form, the page shows the preview, and the same
\* form is submitted: ret holds the previewed amount and the
\* estimated_monthly_change that create_contract_request stores
PreviewAndSubmit(form) ==
    /\ FormIsValid(form)
    /\ \E p \in calculate_price_estimate(form), e \in EstimatedChange(form) :
          ret' = [op |-> "estimates", form |-> form, preview |-> p, stored |-> e]
    /\ UNCHANGED <<today, discounts, items, prices, invoices, invoice_items,
                   requests, notifications, debts, item_discounts, calls>>

PreviewPrices ==
    {[subject |-> 1, price_per_hour |-> 3000, valid_from |-> 1,
      valid_to |-> Null, is_active |-> TRUE]}

PreviewItems ==
    {[contract |-> 1, child |-> 1, subject |-> 1, base_price |-> 3000,
      final_price |-> 2700, is_active |-> TRUE],
     [contract |-> 2, child |-> 1, subject |-> 1, base_price |-> 3000,
      final_price |-> 3000, is_active |-> TRUE]}

PreviewForms ==
    [request_type : {"add_subject", "remove_subject", "change_schedule"},
     contract : {Some(1), Some(2)}, child : {Null, Some(1)}, subject : {Null, Some(1)},
     status : {"pending"}, estimated_monthly_change : {Null},
     processed_by : {Null}, rejection_reason : {""}]

NextPreview ==
    \/ \E rec \in PreviewPrices : AddPrice(rec)
    \/ \E p \in 1..MaxPrices, b \in BOOLEAN : SetPriceActive(p, b)
    \/ \E rec \in PreviewItems : AddContractItem(rec, PreviewMaxItems)
    \/ \E sel \in SUBSET (1..PreviewMaxItems) : activate_items(sel)
    \/ \E sel \in SUBSET (1..PreviewMaxItems) : deactivate_items(sel)
    \/ \E form \in PreviewForms : PreviewAndSubmit(form)

SpecPreview == Init /\ [][NextPreview]_vars

(***************************************************************************)
(* SpecDeciding: approve_requests and reject_requests run by concurrent    *)
(* admin requests.  An action first evaluates                              *)
(* queryset.filter(status="pending"), which loads the pending rows of the  *)
(* selection, and then takes them one by one: req.save() followed by       *)
(* notify_contract_request_status(req).  Nothing locks the rows and the    *)
(* save has no condition on the stored status.                             *)
(***************************************************************************)
\* "for req in queryset.filter(status='pending')": worker w starts the
\* action that sets `status` on the selection sel and loads the pending rows
LoadPending(w, status, sel) ==
    /\ calls[w].pc = "idle"
    /\ sel # {} /\ sel \subseteq DOMAIN requests
    /\ calls' = [calls EXCEPT ![w] =
                    [pc |-> "deciding", status |-> status,
                     order |-> PendingOrder(sel, Len(requests)),
                     loaded |-> requests]]
    /\ ret' = NoCall
    /\ UNCHANGED <<today, discounts, items, prices, invoices, invoice_items,
                   requests, notifications, debts, item_discounts>>

\* the row that req.save() writes for the loaded instance req
DecidedRow(req, status) ==
    [req EXCEPT !.status = status,
                !.processed_by = Some(AdminUser),
                !.rejection_reason =
                    IF status = "rejected" /\ req.rejection_reason = ""
                    THEN "Abgelehnt durch Administrator"
                    ELSE req.rejection_reason]

\* one turn of the loop: the next loaded request is saved with the new
\* status and its notifications are created
DecideNext(w) ==
    /\ calls[w].pc = "deciding"
    /\ calls[w].order # <<>>
    /\ LET r == Head(calls[w].order)
           created == notify_contract_request_status(r, calls[w].status)
       IN /\ Len(notifications) + Len(created) <= MaxNotifications
          /\ requests' = [requests EXCEPT
                             ![r] = DecidedRow(calls[w].loaded[r], calls[w].status)]
          /\ notifications' = notifications \o created
          /\ ret' = [op |-> "decided", request |-> r, status |-> calls[w].status,
                     worker |-> w]
    /\ calls' = [calls EXCEPT ![w].order = Tail(calls[w].order)]
    /\ UNCHANGED <<today, discounts, items, prices, invoices, invoice_items,
                   debts, item_discounts>>

\* the loop is over: message_user and the response
FinishDeciding(w) ==
    /\ calls[w].pc = "deciding"
    /\ calls[w].order = <<>>
    /\ calls' = [calls EXCEPT ![w] = Idle]
    /\ ret' = NoCall
    /\ UNCHANGED <<today, discounts, items, prices, invoices, invoice_items,
                   requests, notifications, debts, item_discounts>>

NextDeciding ==
    \/ \E rec \in RequestsItems : AddContractItem(rec, RequestsMaxItems)
    \/ \E form \in RequestForms : create_contract_request(form)
    \/ \E w \in Workers, s \in {"approved", "rejected"}, sel \in SUBSET (1..MaxRequests) :
          LoadPending(w, s, sel)
    \/ \E w \in Workers : DecideNext(w)
    \/ \E w \in Workers : FinishDeciding(w)

SpecDeciding == Init /\ [][NextDeciding]_vars

(***************************************************************************)
(* Properties.  The item, invoice or subject an operation acted on is the  *)
(* one ret names; the tables are in the state right after the operation.   *)
(***************************************************************************)
Updated == ret.op = "update_final_price"

\* the discount total the rules in `counted` give on base_price, by the
\* stacking rule: base_price*value/100 per percentage rule, value per
\* absolute rule, all on the original base_price (1e-6 units)
StackedDiscount(base_price, counted) ==
    SumOver(counted,
            [d \in DOMAIN discounts |->
                IF discounts[d].is_percentage THEN base_price * discounts[d].value
                ELSE 10000 * discounts[d].value])

\* C1: after update_final_price the item's stored final_price satisfies
\* 0 <= final_price <= base_price, for any stored Discount rows.
C1_FinalPriceWithinBase ==
    Updated =>
        /\ 0 <= items[ret.item].final_price
        /\ items[ret.item].final_price <= items[ret.item].base_price

\* C2 as stated: update_final_price leaves final_price equal to
\* max(base_price - D, 0), D the additive stack of the counted rules
\* (stated for counted rules of non-negative value).
C2_StoredIsExactStackedPrice ==
    (Updated /\ \A d \in ret.counted : discounts[d].value >= 0) =>
        10000 * items[ret.item].final_price =
            Max(10000 * items[ret.item].base_price
                    - StackedDiscount(items[ret.item].base_price, ret.counted), 0)

\* C2 as amended: update_final_price assigns max(base_price - D, 0), D the
\* additive stack of the counted rules on the original base_price whatever
\* the order the rules are visited in, and the stored final_price is that
\* value rounded to the cent (it differs from it by at most half a cent).
C2_StoredIsRoundedStackedPrice ==
    Updated =>
        LET target == Max(10000 * items[ret.item].base_price
                            - StackedDiscount(items[ret.item].base_price, ret.counted), 0)
        IN /\ ret.exact = target
           /\ 2 * Abs(10000 * items[ret.item].final_price - target) <= 10000

\* C2, the case: a 10 % rule and a 15 % rule both counted on base 10.00
\* leave 7.50 (compounding would leave 7.65, the better rule alone 8.50).
C2_TwoRulesStack ==
    /\ Updated
    /\ items[ret.item].base_price = 1000
    /\ items[ret.item].final_price = 750
    /\ Cardinality(ret.counted) = 2
    /\ \A d \in ret.counted : discounts[d].is_percentage

\* C3: calculate_discounts counts a rule iff it is active, valid_from <=
\* today, valid_to is null or >= today, min_subjects is unset or <= n and
\* max_subjects is unset or >= n, n the number of active items of the
\* item's contract.
C3_CountedIffApplicable ==
    Updated =>
        LET n == SubjectsCount(items[ret.item].contract)
        IN ret.counted =
             {d \in DOMAIN discounts :
                /\ discounts[d].is_active
                /\ discounts[d].valid_from <= today
                /\ (discounts[d].valid_to = {} \/ \A t \in discounts[d].valid_to : t >= today)
                /\ \A m \in discounts[d].min_subjects : m <= n
                /\ \A m \in discounts[d].max_subjects : n <= m}

\* C4: a second update_final_price on the same item, with nothing changed
\* in between, leaves the stored final_price the first call left.
C4_Idempotent ==
    (Updated /\ ret.repeat) => items[ret.item].final_price = ret.before

\* C4, the case: the second of two calls in a row, on an item whose price
\* the rules changed.
C4_SecondCall ==
    /\ Updated
    /\ ret.repeat
    /\ items[ret.item].final_price # items[ret.item].base_price

\* C5: current_price returns the price of a record of the subject that is
\* active and has the greatest valid_from <= today, None when there is no
\* active record of the subject with valid_from <= today; valid_to plays
\* no part.
C5_CurrentPriceIsLatestActive ==
    ret.op = "current_price" =>
        LET eligible == {p \in DOMAIN prices :
                            /\ prices[p].subject = ret.subject
                            /\ prices[p].is_active
                            /\ prices[p].valid_from <= today}
        IN IF eligible = {} THEN ret.result = {}
           ELSE \E p \in eligible :
                   /\ ret.result = {prices[p].price_per_hour}
                   /\ \A q \in eligible : prices[q].valid_from <= prices[p].valid_from

\* C5, the case: 20.00 from day 1 and 25.00 from day 2, read on day 2,
\* give 25.00 although that record's valid_to has passed.
C5_LaterPriceWins ==
    /\ ret.op = "current_price"
    /\ today = 2
    /\ ret.result = {2500}
    /\ \E p, q \in DOMAIN prices :
          /\ prices[p].subject = ret.subject /\ prices[q].subject = ret.subject
          /\ prices[p].is_active /\ prices[q].is_active
          /\ prices[p].valid_from = 1 /\ prices[p].price_per_hour = 2000
          /\ prices[q].valid_from = 2 /\ prices[q].price_per_hour = 2500
          /\ prices[q].valid_to = {1}

Saved == ret.op = "InvoiceItem.save"

\* quantity * unit_price - discount_amount of row k, exact (1e-4 units)
LineExact(k) ==
    invoice_items[k].quantity * invoice_items[k].unit_price
        - 100 * invoice_items[k].discount_amount

\* C6 as stated: right after InvoiceItem.save the stored total_amount
\* equals quantity * unit_price - discount_amount.
C6_StoredTotalIsExact ==
    Saved => 100 * invoice_items[ret.item].total_amount = LineExact(ret.item)

\* C6 as amended: right after InvoiceItem.save the stored total_amount is
\* quantity * unit_price - discount_amount rounded to the cent (within half
\* a cent of it, and equal to it when the product has no fraction of a
\* cent), whatever total_amount the caller had set.
C6_StoredTotalIsRounded ==
    Saved =>
        /\ 2 * Abs(100 * invoice_items[ret.item].total_amount - LineExact(ret.item)) <= 100
        /\ (LineExact(ret.item) % 100 = 0 =>
               100 * invoice_items[ret.item].total_amount = LineExact(ret.item))

\* C6, the case: a line of quantity 0 with a discount of 5.00 is stored
\* with total_amount -5.00.
C6_ZeroQuantitySaved ==
    /\ Saved
    /\ invoice_items[ret.item].quantity = 0
    /\ invoice_items[ret.item].total_amount = -500

Totalled == ret.op = "calculate_totals"

RECURSIVE LinesBeforeDiscount(_, _)
\* sum of quantity * unit_price over rows 1..k of invoice v (1e-4 units)
LinesBeforeDiscount(k, v) ==
    IF k = 0 THEN 0
    ELSE LinesBeforeDiscount(k - 1, v)
            + (IF invoice_items[k].invoice = v
               THEN invoice_items[k].quantity * invoice_items[k].unit_price ELSE 0)

RECURSIVE LineDiscounts(_, _)
\* sum of discount_amount over rows 1..k of invoice v (cents)
LineDiscounts(k, v) ==
    IF k = 0 THEN 0
    ELSE LineDiscounts(k - 1, v)
            + (IF invoice_items[k].invoice = v THEN invoice_items[k].discount_amount ELSE 0)

RECURSIVE LineCount(_, _)
LineCount(k, v) ==
    IF k = 0 THEN 0
    ELSE LineCount(k - 1, v) + (IF invoice_items[k].invoice = v THEN 1 ELSE 0)

\* C7: after calculate_totals the subtotal is the sum of the lines' amounts
\* before discount, quantity * unit_price (here: up to the half cent by
\* which each stored line may be rounded).
C7_SubtotalIsSumBeforeDiscount ==
    Totalled =>
        2 * Abs(100 * invoices[ret.invoice].subtotal
                    - LinesBeforeDiscount(Len(invoice_items), ret.invoice))
            <= 100 * LineCount(Len(invoice_items), ret.invoice)

\* C8 as stated: after calculate_totals total_discount is the sum of the
\* lines' discount_amount, total_amount = subtotal - total_discount, and
\* with no line discount subtotal = total_amount = sum of quantity *
\* unit_price.
C8_TotalsExact ==
    Totalled =>
        LET inv == invoices[ret.invoice]
            n == Len(invoice_items)
        IN /\ inv.total_discount = LineDiscounts(n, ret.invoice)
           /\ inv.total_amount = inv.subtotal - inv.total_discount
           /\ ((\A k \in ItemsOf(ret.invoice) : invoice_items[k].discount_amount = 0) =>
                  /\ inv.total_discount = 0
                  /\ inv.subtotal = inv.total_amount
                  /\ 100 * inv.subtotal = LinesBeforeDiscount(n, ret.invoice))

\* C8 as amended: after calculate_totals total_discount is the sum of the
\* lines' discount_amount, total_amount = subtotal - total_discount, and
\* with no line discount subtotal = total_amount = sum of the lines'
\* quantity * unit_price each rounded to the cent (so within half a cent
\* per line of the exact sum, and equal to it when no product has a
\* fraction of a cent).
C8_TotalsRounded ==
    Totalled =>
        LET inv == invoices[ret.invoice]
            n == Len(invoice_items)
            exact == LinesBeforeDiscount(n, ret.invoice)
        IN /\ inv.total_discount = LineDiscounts(n, ret.invoice)
           /\ inv.total_amount = inv.subtotal - inv.total_discount
           /\ ((\A k \in ItemsOf(ret.invoice) : invoice_items[k].discount_amount = 0) =>
                  /\ inv.total_discount = 0
                  /\ inv.subtotal = inv.total_amount
                  /\ 2 * Abs(100 * inv.subtotal - exact) <= 100 * LineCount(n, ret.invoice)
                  /\ ((\A k \in ItemsOf(ret.invoice) :
                          (invoice_items[k].quantity * invoice_items[k].unit_price) % 100 = 0)
                         => 100 * inv.subtotal = exact))

\* C8, the case: an invoice of two lines of 20.00 without discount has
\* subtotal 40.00, total_discount 0 and total_amount 40.00.
C8_UndiscountedInvoice ==
    /\ Totalled
    /\ Cardinality(ItemsOf(ret.invoice)) = 2
    /\ \A k \in ItemsOf(ret.invoice) : invoice_items[k].discount_amount = 0
    /\ invoices[ret.invoice].subtotal = 4000
    /\ invoices[ret.invoice].total_discount = 0
    /\ invoices[ret.invoice].total_amount = 4000

\* C9: is_overdue is true exactly when status is not 'paid' and due_date <
\* today, for each of the five statuses and due_date before, on and after
\* today.
C9_OverdueIffUnpaidAndLate ==
    ret.op = "is_overdue" =>
        LET inv == invoices[ret.invoice]
        IN ret.result =
             CASE inv.status = "paid" -> FALSE
               [] inv.status \in {"draft", "sent", "overdue", "cancelled"} ->
                     (inv.due_date < today)

\* C9, the case: a sent invoice due today is not overdue.
C9_DueTodayNotOverdue ==
    /\ ret.op = "is_overdue"
    /\ invoices[ret.invoice].status = "sent"
    /\ invoices[ret.invoice].due_date = today
    /\ ret.result = FALSE

RECURSIVE ActiveFinalPrices(_, _)
\* sum of final_price over rows 1..k that are active items of contract c
ActiveFinalPrices(k, c) ==
    IF k = 0 THEN 0
    ELSE ActiveFinalPrices(k - 1, c)
            + (IF items[k].contract = c /\ items[k].is_active
               THEN items[k].final_price ELSE 0)

\* C10: total_monthly_amount read at any moment is the sum of the stored
\* final_price of exactly the contract's active items.
C10_MonthlyTotalIsSumOfActive ==
    ret.op = "total_monthly_amount" =>
        ret.result = ActiveFinalPrices(Len(items), ret.contract)

\* C10, the case: the contract has a recalculated active item (20.00 less
\* 10 %), an inactive item, and another contract has an active item; the
\* total read is 18.00.
C10_OnlyActiveOfContract ==
    /\ ret.op = "total_monthly_amount"
    /\ ret.result = 1800
    /\ \E a, b, o \in DOMAIN items :
          /\ items[a].contract = ret.contract /\ items[a].is_active
          /\ items[b].contract = ret.contract /\ ~items[b].is_active
          /\ items[b].final_price > 0
          /\ items[o].contract # ret.contract /\ items[o].is_active

\* the edges of the status machine draft -> sent -> paid | overdue | cancelled
MachineEdges ==
    {<<"draft", "sent">>, <<"sent", "paid">>, <<"sent", "overdue">>,
     <<"sent", "cancelled">>}

\* C11: under the admin actions mark_as_sent and mark_as_paid, applied to
\* any selection, every invoice keeps its status or moves along an edge of
\* draft -> sent -> paid | overdue | cancelled: none moves backward, a paid
\* or cancelled invoice keeps its status, and paid is entered from sent only.
C11_StatusFollowsMachine ==
    [][(\E sel \in SUBSET (1..MaxInvoices) : mark_as_sent(sel) \/ mark_as_paid(sel))
          => \A v \in DOMAIN invoices :
                \/ invoices'[v].status = invoices[v].status
                \/ <<invoices[v].status, invoices'[v].status>> \in MachineEdges]_vars

\* C12: once InvoiceItem rows exist, no update_final_price call, PriceList
\* insertion or deactivation, or Discount creation, change or deactivation
\* alters any InvoiceItem's quantity, unit_price, discount_amount or
\* total_amount, nor any Invoice's subtotal, total_discount or total_amount.
C12_InvoicesFrozen ==
    [][(invoice_items # <<>> /\ CatalogStep)
          => /\ invoice_items' = invoice_items
             /\ invoices' = invoices]_vars

\* C12, the case: an invoice with a line was totalled, and afterwards a
\* recalculation under a changed rule lowered the contract item's price
\* while a price record stands deactivated.
C12_RecalculatedAfterInvoicing ==
    /\ Updated
    /\ items[ret.item].final_price # ret.before
    /\ \E d \in DOMAIN discounts : discounts[d].value = 1500
    /\ \E p \in DOMAIN prices : ~prices[p].is_active
    /\ invoice_items # <<>>
    /\ \E v \in DOMAIN invoices : invoices[v].subtotal > 0

\* C13: mark_as_resolved leaves is_resolved = true, remaining_amount = 0 and
\* resolved_date = today, and a resolved debt stays resolved with
\* remaining_amount 0 through every later operation of the system.
C13_ResolutionIsOneWay ==
    /\ [](ret.op = "mark_as_resolved" =>
            \A k \in ret.selected :
                /\ debts[k].is_resolved
                /\ debts[k].remaining_amount = 0
                /\ debts[k].resolved_date = {today})
    /\ [][\A k \in DOMAIN debts :
            (debts[k].is_resolved /\ debts[k].remaining_amount = 0) =>
                (debts'[k].is_resolved /\ debts'[k].remaining_amount = 0)]_vars

\* C13, the part that holds: mark_as_resolved leaves the three fields set
\* after every call, and no step of the action itself reopens a resolved debt
C13_MarkAsResolvedOnly ==
    /\ [](ret.op = "mark_as_resolved" =>
            \A k \in ret.selected :
                /\ debts[k].is_resolved
                /\ debts[k].remaining_amount = 0
                /\ debts[k].resolved_date = {today})
    /\ [][(\E sel \in SUBSET (1..MaxDebts) : mark_as_resolved(sel)) =>
            \A k \in DOMAIN debts :
                (debts[k].is_resolved /\ debts[k].remaining_amount = 0) =>
                    (debts'[k].is_resolved /\ debts'[k].remaining_amount = 0)]_vars

Estimated == ret.op = "calculate_estimated_change"

\* C14: for a remove_subject request calculate_estimated_change leaves
\* estimated_monthly_change = -final_price of the active ContractItem
\* matching the request's (contract, child, subject), and 0.00 whenever
\* there is no such item; it is never unset and never positive.
C14_RemovalEstimate ==
    (Estimated /\ ret.request.request_type = "remove_subject") =>
        LET matching == {j \in DOMAIN items :
                            /\ ret.request.contract = {items[j].contract}
                            /\ ret.request.child = {items[j].child}
                            /\ ret.request.subject = {items[j].subject}
                            /\ items[j].is_active}
        IN /\ ret.estimate # {}
           /\ \A e \in ret.estimate : e <= 0
           /\ IF matching = {} THEN ret.estimate = {0}
              ELSE \E j \in matching : ret.estimate = {-items[j].final_price}

\* C14, the part that holds: when the request names a contract, a child
\* and a subject, the estimate is -final_price of the matching active item
\* (-27.00 for an item recalculated to 27.00) and 0.00 when there is none.
C14_RemovalEstimateOfCompleteRequest ==
    (/\ Estimated /\ ret.request.request_type = "remove_subject"
     /\ ret.request.contract # {} /\ ret.request.child # {} /\ ret.request.subject # {}) =>
        LET matching == {j \in DOMAIN items :
                            /\ ret.request.contract = {items[j].contract}
                            /\ ret.request.child = {items[j].child}
                            /\ ret.request.subject = {items[j].subject}
                            /\ items[j].is_active}
        IN IF matching = {} THEN ret.estimate = {0}
           ELSE \E j \in matching : ret.estimate = {-items[j].final_price}

\* C15: for an add_subject request naming a subject,
\* calculate_estimated_change leaves estimated_monthly_change = the subject's
\* current price as of today, for every price the catalog holds, 0.00
\* included, with no discount whatever the contract's active items.
C15_AdditionEstimate ==
    (/\ Estimated /\ ret.request.request_type = "add_subject"
     /\ ret.request.subject # {}) =>
        LET eligible == {p \in DOMAIN prices :
                            /\ ret.request.subject = {prices[p].subject}
                            /\ prices[p].is_active
                            /\ prices[p].valid_from <= today}
        IN IF eligible = {} THEN ret.estimate = {}
           ELSE \E p \in eligible :
                   /\ ret.estimate = {prices[p].price_per_hour}
                   /\ \A q \in eligible : prices[q].valid_from <= prices[p].valid_from

\* C15, the part that holds: whenever the subject's current price is not
\* 0.00 the estimate is that price, undiscounted.
C15_AdditionEstimateOfNonZeroPrice ==
    (/\ Estimated /\ ret.request.request_type = "add_subject"
     /\ ret.request.subject # {}) =>
        LET eligible == {p \in DOMAIN prices :
                            /\ ret.request.subject = {prices[p].subject}
                            /\ prices[p].is_active
                            /\ prices[p].valid_from <= today}
            latest == {p \in eligible :
                          \A q \in eligible : prices[q].valid_from <= prices[p].valid_from}
        IN \/ ret.estimate \in {{prices[p].price_per_hour} : p \in latest} 
           \/ ret.estimate = {} /\ (latest = {} \/ \E p \in latest : prices[p].price_per_hour = 0)

\* a step of one of the two admin actions on change requests
RequestActionStep ==
    \E sel \in SUBSET (1..MaxRequests) : approve_requests(sel) \/ reject_requests(sel)

\* C16: under approve_requests and reject_requests on any selections a
\* request changes status only from pending, and only to approved or
\* rejected; a request that is approved or rejected keeps its status.
C16_ProcessedIsTerminal ==
    [][RequestActionStep =>
          \A r \in DOMAIN requests :
              requests'[r].status # requests[r].status =>
                  /\ requests[r].status = "pending"
                  /\ requests'[r].status \in {"approved", "rejected"}]_vars

\* C16, the case: reject_requests ran on a selection holding an approved
\* request, which it did not touch.
C16_RejectSkipsApproved ==
    /\ ret.op = "reject_requests"
    /\ ret.updated < Cardinality(ret.selected)
    /\ \E r \in ret.selected :
          requests[r].status = "approved" /\ requests[r].processed_by # {}

C18_RecalculationRecordsDiscounts ==
    Updated =>
        \A d \in ret.counted :
            \E k \in DOMAIN item_discounts :
                /\ item_discounts[k].contract_item = ret.item
                /\ item_discounts[k].discount = d
                /\ 2 * Abs(10000 * item_discounts[k].discount_amount
                             - StackedDiscount(items[ret.item].base_price, {d})) <= 10000

\* an update_final_price or calculate_totals call has just returned or raised
Called == ret.op = "call"

\* the row the call was made on, as it is stored now
StoredRow ==
    IF ret.method = "update_final_price" THEN items[ret.row] ELSE invoices[ret.row]

\* C19: a call of update_final_price on an instance without base_price raises
\* an error to the caller, and after every update_final_price or
\* calculate_totals call that raised, the ContractItem or Invoice row is
\* stored exactly as it was before the call.
C19_FailureWritesNothing ==
    Called =>
        /\ ret.missing => ret.error # "none"
        /\ ret.error # "none" => StoredRow = ret.stored

\* C19, its case: a 10 % rule applies to an item still stored at its base
\* price of 20.00; the call without base_price raised and the row still
\* holds 20.00
C19_FailedOnMissingBasePrice ==
    /\ Called
    /\ ret.method = "update_final_price"
    /\ ret.missing
    /\ ret.error = "TypeError"
    /\ ApplicableDiscounts # {}
    /\ items[ret.row].final_price = 2000
    /\ \A order \in QueryOrders : FinalPriceStored(ret.row, order) = 1800

\* a worker's self.save() has just run
SavedItem == ret.op = "save"

\* C20: nothing serializes the calls on one item: a worker can load the row
\* while another call on it is in flight, every call that reached save() can
\* save, the save raises no error, and after it the stored final_price is
\* the value that save wrote.
C20_LastWriteWins ==
    /\ \A w \in Workers :
          /\ calls[w].pc = "idle" => \A i \in DOMAIN items : ENABLED LoadItem(w, i)
          /\ calls[w].pc = "calculated" => ENABLED SaveItem(w)
    /\ SavedItem =>
          /\ ret.error = "none"
          /\ items[ret.item].final_price = ret.written

\* C20, its case: the other worker had already saved the price that the
\* current catalog gives; the save that came last wrote a different price,
\* computed from the catalog as it was before, and that price is stored
C20_StalePriceStored ==
    /\ SavedItem
    /\ ret.overtaken # Null
    /\ ret.written # Val(ret.overtaken)
    /\ items[ret.item].final_price = ret.written
    /\ \A order \in QueryOrders :
          FinalPriceStored(ret.item, order) = Val(ret.overtaken)
    /\ \A w \in Workers : calls[w].pc = "idle"

\* the operations on invoices other than the admin change form
AutomaticStep ==
    \/ AdvanceDay
    \/ \E rec \in NewInvoices(Days) : AddInvoice(rec)
    \/ \E sel \in SUBSET (1..MaxInvoices) : mark_as_sent(sel) \/ mark_as_paid(sel)
    \/ \E v \in 1..MaxInvoices : ReadIsOverdue(v)

\* C21 as stated: no invoice is ever stored with status 'overdue'.
C21_NeverStoredOverdue ==
    \A v \in DOMAIN invoices : invoices[v].status # "overdue"

\* C21: no operation other than an edit of the status field in the admin
\* change form sets a stored status to 'overdue' (the passing of a day, the
\* creation of an invoice, mark_as_sent, mark_as_paid and a read of
\* is_overdue do not), and the passing of a day leaves every invoice as it
\* is stored, a sent invoice past its due_date included.
C21_OverdueOnlyByHand ==
    [][AutomaticStep
          => /\ \A v \in DOMAIN invoices' :
                   invoices'[v].status = "overdue"
                      => v \in DOMAIN invoices /\ invoices[v].status = "overdue"
             /\ AdvanceDay => invoices' = invoices]_vars

\* C21, its case: on the last day is_overdue is read as true for an invoice
\* that was due on the first day and is still stored as 'sent'
C21_SentAndOverdue ==
    /\ ret.op = "is_overdue"
    /\ ret.result
    /\ invoices[ret.invoice].status = "sent"
    /\ invoices[ret.invoice].due_date = 1
    /\ today = MaxDay

\* the three stored totals of an invoice row
StoredTotals(inv) == <<inv.subtotal, inv.total_discount, inv.total_amount>>

\* C22: a step changes the stored subtotal, total_discount or total_amount
\* of an invoice only if it is a calculate_totals call on that invoice;
\* creating, saving again or deleting an InvoiceItem and editing the invoice
\* in its change form leave the three totals of every invoice as stored.
C22_TotalsChangeOnlyByCalculateTotals ==
    [][/\ \A v \in DOMAIN invoices :
             StoredTotals(invoices'[v]) # StoredTotals(invoices[v])
                => calculate_totals(v)
       /\ ((\E k \in 1..MaxInvoiceItems :
               \/ DeleteInvoiceItem(k)
               \/ \E inst \in LinesInstances : InvoiceItem_save(k, inst))
            => invoices' = invoices)]_vars

\* C22, its case: an invoice totalled at 20.00 from one line has just had
\* its only line deleted and still stores subtotal 20.00, which is not the
\* sum over its current lines
C22_StaleTotalsAfterDelete ==
    /\ ret.op = "InvoiceItem.delete"
    /\ invoices[ret.invoice].subtotal = 2000
    /\ ItemsOf(ret.invoice) = {}
    /\ Subtotal(ret.invoice) = 0

\* row i with its final_price left out of the comparison
WithoutFinalPrice(row) == [row EXCEPT !.final_price = 0]

C24_ShowsMonthlyTotal ==
    ret.op = "get_monthly_total" =>
        ret.shown.cents = total_monthly_amount(ret.contract)

\* C25: the save that completes an update_final_price call leaves the
\* item's stored is_active and base_price as they are, so that a
\* deactivate_items or activate_items run that completed while the call was
\* in flight is not undone, in any interleaving.
C25_ActionNotUndone ==
    [][\A w \in Workers :
          SaveItem(w)
             => /\ items'[calls[w].item].is_active = items[calls[w].item].is_active
                /\ items'[calls[w].item].base_price = items[calls[w].item].base_price]_vars

\* C26: after calculate_totals returns, the stored subtotal and
\* total_discount are the two sums over one and the same set of the
\* invoice's lines: both over the lines as the first SELECT found them, or
\* both over the lines as the second SELECT found them, whatever was
\* inserted, changed or deleted meanwhile.
C26_TotalsFromOneSnapshot ==
    ret.op = "calculate_totals returned" =>
        LET stored == <<invoices[ret.invoice].subtotal,
                        invoices[ret.invoice].total_discount>>
        IN stored = ret.first \/ stored = ret.second

\* C27: under any sequence of mark_as_sent and mark_as_paid on any
\* selections, an invoice has paid_date set if and only if its stored status
\* is 'paid'.
C27_PaidDateIffPaid ==
    \A v \in DOMAIN invoices :
        (invoices[v].paid_date # Null) <=> (invoices[v].status = "paid")

\* C28: for one and the same form and stored state, the amount the preview
\* endpoint returns equals the estimated_monthly_change stored on
\* submission, an unset estimate counted as 0, also for a child with active
\* items for the subject in more than one contract.
C28_PreviewEqualsStored ==
    ret.op = "estimates" =>
        ret.preview = (IF ret.stored = Null THEN 0 ELSE Val(ret.stored))

\* C29: activate_items and deactivate_items set is_active of the selected
\* ContractItems and change nothing else: every other field of the selected
\* rows, final_price included, and every row not selected stay as stored,
\* also when the new number of active items changes which rules apply.
C29_ActivationWritesIsActiveOnly ==
    [][\A sel \in SUBSET (1..FrameMaxItems) :
          /\ activate_items(sel)
                => items' = [j \in DOMAIN items |->
                                IF j \in sel THEN [items[j] EXCEPT !.is_active = TRUE]
                                ELSE items[j]]
          /\ deactivate_items(sel)
                => items' = [j \in DOMAIN items |->
                                IF j \in sel THEN [items[j] EXCEPT !.is_active = FALSE]
                                ELSE items[j]]]_vars

\* C29, its case: the rule applies from two active items on; the second
\* item has been deactivated, and the first still stores the 18.00 it was
\* given while both were active, where a recalculation would now give 20.00
C29_StalePriceAfterDeactivation ==
    /\ Len(items) = 2
    /\ ret = NoCall
    /\ items[1].is_active /\ ~items[2].is_active
    /\ items[1].final_price = 1800
    /\ ApplicableDiscounts # {}
    /\ \A order \in QueryOrders : FinalPriceStored(1, order) = 2000

\* the approved/rejected notifications the parent has for request r
ParentNotifications(r) ==
    {k \in DOMAIN notifications :
        notifications[k].recipient = ParentUser /\ notifications[k].request = r}

\* C30: in every interleaving of approve_requests and reject_requests runs,
\* a request that an action decides is pending at that moment and its parent
\* has no notification for it yet, so that every request leaves pending at
\* most once, its parent is notified at most once, and a decided request is
\* neither changed nor notified again.
C30_DecidedAtMostOnce ==
    [][\A w \in Workers :
          DecideNext(w)
             => /\ requests[Head(calls[w].order)].status = "pending"
                /\ ParentNotifications(Head(calls[w].order)) = {}]_vars

====
